---- MODULE Spec2Model ----
(***************************************************************************)
(* Model of the metric aggregation pipelines of the Global Alignment Index *)
(* repository: population-weighted aggregation with coverage gating        *)
(* (u5_mortality, extreme_poverty, homicide_rate,                          *)
(* death_registration_completeness, firearm_stock_per_100 in its TS and JS *)
(* forms), the per-year series each run() writes, and the order of its     *)
(* fatal checks and file writes.                                           *)
(*                                                                         *)
(* Numbers.  The pipelines compute in IEEE doubles.  The model computes in *)
(* exact rationals [n, d] (d > 0); on the small integers drawn here every  *)
(* comparison the code makes (coverage >= 0.7, |a - b| > 1e-6, ...) has    *)
(* the same outcome in doubles and in rationals.  A JS number that may be  *)
(* NaN is a record [t, n] with t = "num" or "nan".                         *)
(*                                                                         *)
(* File and network I/O is taken not to fail: a run fails only where the   *)
(* pipeline's own code throws.                                             *)
(***************************************************************************)
EXTENDS Integers, Sequences, FiniteSets, TLC

VARIABLES input, pc, out

vars == <<input, pc, out>>

(***************************************************************************)
(* Generic helpers                                                         *)
(***************************************************************************)

\* Exact rationals.
Rat(n, d) == [n |-> n, d |-> d]
RatInt(n) == Rat(n, 1)
RECURSIVE GCD(_, _)
GCD(a, b) == IF b = 0 THEN a ELSE GCD(b, a % b)
\* The sum in lowest terms (sums of many terms stay within TLC's integers).
RatAdd(a, b) ==
  LET n == a.n * b.d + b.n * a.d
      d == a.d * b.d
      g == GCD(IF n < 0 THEN -n ELSE n, d)
  IN  Rat(n \div g, d \div g)
RatMulInt(a, k) == Rat(a.n * k, a.d)
RatDiv(a, b) == Rat(a.n * b.d, a.d * b.n)          \* b > 0
RatEq(a, b) == a.n * b.d = b.n * a.d
RatLt(a, b) == a.n * b.d < b.n * a.d
RatLe(a, b) == a.n * b.d <= b.n * a.d
RatAbsDiff(a, b) ==
  LET x == a.n * b.d - b.n * a.d
  IN  Rat(IF x < 0 THEN -x ELSE x, a.d * b.d)

Pow10(k) == IF k = 0 THEN 1 ELSE IF k = 1 THEN 10 ELSE IF k = 2 THEN 100 ELSE 1000

\* Math.round(value * 10^k) / 10^k, returned as the integer Math.round(value * 10^k):
\* Math.round is floor(x + 1/2).
RoundScaled(r, k) ==
  (r.n \div r.d) * Pow10(k) + (2 * (r.n % r.d) * Pow10(k) + r.d) \div (2 * r.d)

SeqToSet(s) == {s[i] : i \in 1..Len(s)}

\* F applied to the value of v, v being computed once (as a JS `const x = v`).
Let(v, F(_)) == CHOOSE r \in {F(x) : x \in {v}} : TRUE
\* The same for a sequence, held as a tuple of computed elements.
LetSeq(v, F(_)) == Let(<<>> \o v, F)

\* for (const x of s) acc = step(acc, x), starting from acc = init
FoldLeft(step(_, _), init, s) ==
  LetSeq(s, LAMBDA xs :
    LET f[i \in 0..Len(xs)] ==
          IF i = 0 THEN init ELSE Let(f[i - 1], LAMBDA acc : step(acc, xs[i]))
    IN  f[Len(xs)])

SumInts(s) == FoldLeft(LAMBDA acc, x : acc + x, 0, s)

SumRats(s) == FoldLeft(RatAdd, RatInt(0), s)

\* A JS Map (or plain object): entries [k, v] in insertion order, keys unique.
\* set() of an existing key replaces the value and keeps the key's position.
MapHas(m, k) == \E i \in 1..Len(m) : m[i].k = k
MapGet(m, k) == m[CHOOSE i \in 1..Len(m) : m[i].k = k].v
MapSet(m, k, v) ==
  IF MapHas(m, k)
  THEN [i \in 1..Len(m) |-> IF m[i].k = k THEN [k |-> k, v |-> v] ELSE m[i]]
  ELSE Append(m, [k |-> k, v |-> v])
MapKeys(m) == [i \in 1..Len(m) |-> m[i].k]

\* new Set(xs) / Array.from(set): the distinct elements in first-occurrence order.
Distinct(s) ==
  FoldLeft(LAMBDA acc, x : IF x \in SeqToSet(acc) THEN acc ELSE Append(acc, x), <<>>, s)

\* xs.sort((a, b) => a - b) on numbers: insertion of each element after the
\* elements that are <= it (the sort is stable).
InsertAsc(sorted, x) ==
  LET n == Cardinality({i \in 1..Len(sorted) : sorted[i] <= x})
  IN  SubSeq(sorted, 1, n) \o <<x>> \o SubSeq(sorted, n + 1, Len(sorted))

NoSort(s) == s

SortAsc(s) == FoldLeft(InsertAsc, <<>>, s)

\* JS numbers that may be NaN, and the raw cells they are converted from.
Num(n) == [t |-> "num", n |-> n]
NaN == [t |-> "nan", n |-> 0]
\* A raw cell that carries no value: JSON null in a WDI row, the empty string in a
\* CSV cell.
RawNull == [t |-> "null", n |-> 0]
isNaN(x) == x.t = "nan"
\* Number(null) and Number("") are both 0.
JsNumber(raw) == IF raw.t = "null" THEN Num(0) ELSE raw

UpperLetters ==
  {"A", "B", "C", "D", "E", "F", "G", "H", "I", "J", "K", "L", "M",
   "N", "O", "P", "Q", "R", "S", "T", "U", "V", "W", "X", "Y", "Z"}

\* /^[A-Z]{3}$/.test(code)
IsUpper3(code) == Len(code) = 3 /\ \A i \in 1..3 : SubSeq(code, i, i) \in UpperLetters

ISO_WLD == "WLD"

\* EXCLUDE of the two WDI pipelines.
EXCLUDE ==
  {"WLD", "HIC", "INX", "LIC", "LMC", "MIC", "UMC", "OED", "ARB", "EAP",
   "ECA", "ECS", "EUU", "LCN", "LAC", "MEA", "NAC", "SAS", "SSA", "FCS"}

AGGREGATE_ISO3 ==
  {"AFE", "AFW", "ARB", "CEB", "CSS", "EAP", "EAR", "EAS", "ECA", "ECS",
   "EMU", "EUU", "FCS", "HIC", "HPC", "IBD", "IBT", "IDA", "IDB", "IDX",
   "LAC", "LCN", "LDC", "LIC", "LMC", "LMY", "LTE", "MEA", "MIC", "MNA",
   "NAC", "OED", "OSS", "PRE", "PSS", "PST", "SAS", "SSA", "SSF", "SST",
   "TEA", "TEC", "TLA", "TMN", "TSA", "TSS", "UMC"}

isIso3(code) == IsUpper3(code) /\ code \notin EXCLUDE

isCountryIso(code) == IsUpper3(code) /\ code # ISO_WLD /\ code \notin AGGREGATE_ISO3

(***************************************************************************)
(* Results of a run.  A run yields                                         *)
(*   status  : "ok" (run() returned) or "failed" (run() threw),            *)
(*   written : the files written, in order,                                *)
(*   series  : the series handed to the first write (or computed so far),  *)
(*             points [year, value (exact), rounded (scaled integer)],     *)
(*   diag    : per candidate year, what the pipeline computed:             *)
(*             [year, cov (coverage as the pipeline computes it),          *)
(*              value, kept].                                              *)
(***************************************************************************)
Point(year, value, decimals) ==
  [year |-> year, value |-> value, rounded |-> RoundScaled(value, decimals)]

Result(name, status, written, series, diag) ==
  [pipeline |-> name, status |-> status, written |-> written,
   series |-> series, diag |-> diag]

Years(series) == [i \in 1..Len(series) |-> series[i].year]

\* scripts/validate-datasets.cjs, the check of a default {year, value} series on
\* its years: prevYear starts at -Infinity and an item with year <= prevYear is
\* rejected.  TRUE when no item is rejected.
validateSeriesYears(years) ==
  FoldLeft(LAMBDA acc, year :
             [ok |-> acc.ok /\ ~(acc.seen /\ year <= acc.prevYear),
              seen |-> TRUE, prevYear |-> year],
           [ok |-> TRUE, seen |-> FALSE, prevYear |-> 0], years).ok

(***************************************************************************)
(* Raw tables.  A row is [iso, year, value, source]: value is a raw cell   *)
(* (RawNull or Num(n)), source the free-text source column (homicide CSV). *)
(***************************************************************************)
Row(iso, year, value) == [iso |-> iso, year |-> year, value |-> value, source |-> ""]

Key(iso, year) == <<iso, year>>

\* The years of the keys of an (iso, year)-keyed map, as first inserted.
KeyYears(m) == Distinct([i \in 1..Len(m) |-> m[i].k[2]])

(***************************************************************************)
(* u5_mortality (scripts/pipelines/u5_mortality.ts)                        *)
(***************************************************************************)
\* The ingestion loops: val = Number(d.value), rows with a bad code or a NaN
\* value are skipped, a later row of the same (iso, year) overwrites.
U5Table(rows) ==
  LET step(m, d) ==
        LET val == JsNumber(d.value)
        IN  IF d.iso = "" \/ ~isIso3(d.iso) \/ isNaN(val)
            THEN m
            ELSE MapSet(m, Key(d.iso, d.year), val.n)
  IN  FoldLeft(step, <<>>, rows)

U5MinCoverage == Rat(7, 10)

\* coverage >= 0.7 && totalPop > 0
U5Gate(coverage, totalPop) == RatLe(U5MinCoverage, coverage) /\ totalPop > 0

\* One round of the loop over ys: the sums over the countries with a population.
U5Year(mort, pop, year) ==
  LET hasPop(i) == pop[i].k[2] = year
      hasBoth(i) == hasPop(i) /\ MapHas(mort, pop[i].k)
      n_pop == Cardinality({i \in 1..Len(pop) : hasPop(i)})
      n_both == Cardinality({i \in 1..Len(pop) : hasBoth(i)})
      weighted == SumInts([i \in 1..Len(pop) |->
                     IF hasBoth(i) THEN MapGet(mort, pop[i].k) * pop[i].v ELSE 0])
      totalPop == SumInts([i \in 1..Len(pop) |-> IF hasBoth(i) THEN pop[i].v ELSE 0])
      coverage == IF n_pop # 0 THEN Rat(n_both, n_pop) ELSE RatInt(0)
  IN  [year |-> year, cov |-> coverage,
       kept |-> U5Gate(coverage, totalPop),
       value |-> IF totalPop > 0 THEN Rat(weighted, totalPop) ELSE RatInt(0)]

KeptPoints(diag, decimals) ==
  LET kept == SelectSeq(diag, LAMBDA r : r.kept)
  IN  [i \in 1..Len(kept) |-> Point(kept[i].year, kept[i].value, decimals)]

U5Output(pop, diag, data) ==
  IF Len(pop) = 0 THEN Result("u5_mortality", "failed", <<>>, <<>>, <<>>)
  ELSE IF Len(data) = 0 THEN Result("u5_mortality", "failed", <<>>, data, diag)
  ELSE Result("u5_mortality", "ok",
              <<"public/data/u5_mortality.json",
                "public/data/u5_mortality_coverage.json">>, data, diag)

(***************************************************************************)
(* fetchWdiAll (u5_mortality and extreme_poverty have the same code).  The *)
(* rows of an indicator are on the server in pages of PageSize rows; kinds *)
(* gives for each page what its request returns: "ok" (the rows of the     *)
(* page), "notOk" (a response with res.ok false) or "badPayload" (a body   *)
(* that is no [meta, rows] array).                                         *)
(***************************************************************************)
PageSize == 2

PageCount(serverRows) ==
  IF Len(serverRows) = 0 THEN 1 ELSE (Len(serverRows) + PageSize - 1) \div PageSize

PageRows(serverRows, p) ==
  SubSeq(serverRows, (p - 1) * PageSize + 1,
         IF p * PageSize < Len(serverRows) THEN p * PageSize ELSE Len(serverRows))

AllOk(serverRows) == [p \in 1..PageCount(serverRows) |-> "ok"]

\* threw: page 1 is not OK.  A later page that is not OK ends the loop (break)
\* and the rows fetched so far are returned.
fetchWdiAll(serverRows, kinds) ==
  IF kinds[1] = "notOk" THEN [threw |-> TRUE, rows |-> <<>>]
  ELSE IF kinds[1] = "badPayload" THEN [threw |-> FALSE, rows |-> <<>>]
  ELSE LET step(acc, p) ==
             IF acc.stopped THEN acc
             ELSE IF kinds[p] = "notOk" THEN [acc EXCEPT !.stopped = TRUE]
             ELSE IF kinds[p] = "ok"
             THEN [acc EXCEPT !.rows = acc.rows \o PageRows(serverRows, p)]
             ELSE acc
           last == FoldLeft(step, [stopped |-> FALSE, rows |-> PageRows(serverRows, 1)],
                            [i \in 1..(PageCount(serverRows) - 1) |-> i + 1])
       IN  [threw |-> FALSE, rows |-> last.rows]

U5Run(mortRows, popRows) ==
  LetSeq(U5Table(mortRows), LAMBDA mort :
    LetSeq(U5Table(popRows), LAMBDA pop :
      LetSeq(SortAsc(KeyYears(pop)), LAMBDA ys :
        LetSeq([i \in 1..Len(ys) |-> U5Year(mort, pop, ys[i])], LAMBDA diag :
          LetSeq(KeptPoints(diag, 2), LAMBDA data : U5Output(pop, diag, data))))))

\* run(): Promise.all of the two fetches rejects when one of them throws.
U5RunFetched(mortFetch, popFetch) ==
  IF mortFetch.threw \/ popFetch.threw
  THEN Result("u5_mortality", "failed", <<>>, <<>>, <<>>)
  ELSE U5Run(mortFetch.rows, popFetch.rows)

(***************************************************************************)
(* extreme_poverty                                                         *)
(***************************************************************************)
EP_FIRST_YEAR == 1981

COVERAGE_MIN == Rat(8, 10)

\* isoFrom, and value = row.value == null ? NaN : Number(row.value).
EpTable(rows) ==
  LET step(m, d) ==
        LET value == IF d.value.t = "null" THEN NaN ELSE JsNumber(d.value)
        IN  IF d.iso = "" \/ ~IsUpper3(d.iso) \/ d.iso \in EXCLUDE \/ isNaN(value)
            THEN m
            ELSE MapSet(m, Key(d.iso, d.year), value.n)
  IN  FoldLeft(step, <<>>, rows)

\* !(coverage < COVERAGE_MIN || usedPopulation <= 0)
EpGate(coverage, usedPopulation) ==
  ~(RatLt(coverage, COVERAGE_MIN) \/ usedPopulation <= 0)

EpYear(poverty, population, year) ==
  LET hasPop(i) == population[i].k[2] = year
      hasBoth(i) == hasPop(i) /\ MapHas(poverty, population[i].k)
      totalPopulation ==
        SumInts([i \in 1..Len(population) |-> IF hasPop(i) THEN population[i].v ELSE 0])
      usedPopulation ==
        SumInts([i \in 1..Len(population) |-> IF hasBoth(i) THEN population[i].v ELSE 0])
      weighted ==
        SumInts([i \in 1..Len(population) |->
           IF hasBoth(i) THEN population[i].v * MapGet(poverty, population[i].k) ELSE 0])
      coverage == IF totalPopulation > 0 THEN Rat(usedPopulation, totalPopulation)
                  ELSE RatInt(0)
  IN  [year |-> year, cov |-> coverage,
       kept |-> totalPopulation > 0 /\ EpGate(coverage, usedPopulation),
       value |-> IF usedPopulation > 0 THEN Rat(weighted, usedPopulation) ELSE RatInt(0)]

EpOutput(population, diag, data) ==
  IF Len(population) = 0 THEN Result("extreme_poverty", "failed", <<>>, <<>>, <<>>)
  ELSE IF Len(data) = 0 THEN Result("extreme_poverty", "failed", <<>>, data, diag)
  ELSE Result("extreme_poverty", "ok", <<"public/data/extreme_poverty.json">>, data, diag)

\* yearSet: the years in which some country has both a value and a population.
EpYears(poverty, population) ==
  SortAsc(KeyYears(SelectSeq(poverty, LAMBDA e : MapHas(population, e.k))))

EpRun(povertyRows, populationRows) ==
  LetSeq(EpTable(povertyRows), LAMBDA poverty :
    LetSeq(EpTable(populationRows), LAMBDA population :
      LetSeq(SelectSeq(EpYears(poverty, population), LAMBDA y : ~(y < EP_FIRST_YEAR)),
             LAMBDA cand :
        LetSeq([i \in 1..Len(cand) |-> EpYear(poverty, population, cand[i])], LAMBDA diag :
          LetSeq(KeptPoints(diag, 2), LAMBDA data : EpOutput(population, diag, data))))))

EpRunFetched(povertyFetch, populationFetch) ==
  IF povertyFetch.threw \/ populationFetch.threw
  THEN Result("extreme_poverty", "failed", <<>>, <<>>, <<>>)
  ELSE EpRun(povertyFetch.rows, populationFetch.rows)

(***************************************************************************)
(* Strings                                                                 *)
(***************************************************************************)
UpperSeq ==
  <<"A", "B", "C", "D", "E", "F", "G", "H", "I", "J", "K", "L", "M",
    "N", "O", "P", "Q", "R", "S", "T", "U", "V", "W", "X", "Y", "Z">>
LowerSeq ==
  <<"a", "b", "c", "d", "e", "f", "g", "h", "i", "j", "k", "l", "m",
    "n", "o", "p", "q", "r", "s", "t", "u", "v", "w", "x", "y", "z">>

ToLowerChar(c) ==
  IF \E i \in 1..26 : UpperSeq[i] = c
  THEN LowerSeq[CHOOSE i \in 1..26 : UpperSeq[i] = c] ELSE c
ToUpperChar(c) ==
  IF \E i \in 1..26 : LowerSeq[i] = c
  THEN UpperSeq[CHOOSE i \in 1..26 : LowerSeq[i] = c] ELSE c

MapChars(s, F(_)) ==
  LET f[i \in 0..Len(s)] == IF i = 0 THEN "" ELSE f[i - 1] \o F(SubSeq(s, i, i))
  IN  f[Len(s)]

toLowerCase(s) == MapChars(s, ToLowerChar)
toUpperCase(s) == MapChars(s, ToUpperChar)

\* s.includes(sub)
Includes(s, sub) ==
  \E i \in 1..(Len(s) - Len(sub) + 1) : SubSeq(s, i, i + Len(sub) - 1) = sub

\* xs.sort((a, b) => a.year - b.year): stable insertion by year.
SortByYear(s) ==
  LET ins(sorted, x) ==
        LET n == Cardinality({i \in 1..Len(sorted) : sorted[i].year <= x.year})
        IN  SubSeq(sorted, 1, n) \o <<x>> \o SubSeq(sorted, n + 1, Len(sorted))
  IN  FoldLeft(ins, <<>>, s)

(***************************************************************************)
(* homicide_rate                                                           *)
(***************************************************************************)
HOMICIDE_START_YEAR == 1990

HomicideMinCoverage == Rat(95, 100)

\* Math.abs(existing.rate - rate) > 1e-6
DiffersBeyondTolerance(a, b) == RatLt(Rat(1, 1000000), RatAbsDiff(a, b))

isUnodc(source) == Includes(toLowerCase(source), "unodc")

\* loadHomicideRates: the WLD rows go to wldByYear, the country rows to data,
\* where a second row of a country-year is reconciled with the stored one.
loadHomicideRates(rows) ==
  LET step(acc, row) ==
        LET rate == JsNumber(row.value)
            key == Key(row.iso, row.year)
        IN  IF row.iso = ISO_WLD
            THEN IF row.year >= HOMICIDE_START_YEAR /\ ~isNaN(rate) /\ rate.n >= 0
                 THEN [acc EXCEPT !.wldByYear = MapSet(@, row.year, rate.n)]
                 ELSE acc
            ELSE IF ~isCountryIso(row.iso) \/ isNaN(rate)
                    \/ row.year < HOMICIDE_START_YEAR \/ rate.n < 0
            THEN acc
            ELSE IF MapHas(acc.data, key)
            THEN LET existing == MapGet(acc.data, key)
                     preferNew == isUnodc(row.source) /\ ~isUnodc(existing.source)
                 IN  IF preferNew
                     THEN [acc EXCEPT !.data =
                             MapSet(@, key, [rate |-> RatInt(rate.n), source |-> row.source])]
                     ELSE IF DiffersBeyondTolerance(existing.rate, RatInt(rate.n))
                     THEN [acc EXCEPT !.data =
                             MapSet(@, key,
                                    [rate |-> RatDiv(RatAdd(existing.rate, RatInt(rate.n)),
                                                     RatInt(2)),
                                     source |-> existing.source])]
                     ELSE acc
            ELSE [acc EXCEPT !.data =
                    MapSet(@, key, [rate |-> RatInt(rate.n), source |-> row.source])]
  IN  Let(FoldLeft(step, [data |-> <<>>, wldByYear |-> <<>>], rows), LAMBDA final :
        [countryRates |-> [i \in 1..Len(final.data) |->
                             [k |-> final.data[i].k, v |-> final.data[i].v.rate]],
         wldByYear |-> final.wldByYear])

\* loadPopulations: a repeated (iso, year) keeps the larger population.
loadPopulations(rows) ==
  LET step(m, row) ==
        LET population == JsNumber(row.value)
            key == Key(row.iso, row.year)
        IN  IF row.iso = ISO_WLD \/ ~isCountryIso(row.iso)
               \/ row.year < HOMICIDE_START_YEAR
               \/ isNaN(population) \/ population.n <= 0
            THEN m
            ELSE IF MapHas(m, key)
            THEN IF MapGet(m, key) # population.n
                 THEN MapSet(m, key, IF MapGet(m, key) > population.n
                                     THEN MapGet(m, key) ELSE population.n)
                 ELSE m
            ELSE MapSet(m, key, population.n)
  IN  FoldLeft(step, <<>>, rows)

\* The bottom-up loop over sortedYears: computedByYear, a map year -> [value, coverage]
\* that has no entry for a year without covered population.
HomicideComputedYear(countryRates, populations, year) ==
  LET inYear(i) == populations[i].k[2] = year
      covered(i) == inYear(i) /\ MapHas(countryRates, populations[i].k)
  IN  Let(SumInts([i \in 1..Len(populations) |-> IF inYear(i) THEN populations[i].v ELSE 0]),
          LAMBDA totalPop :
      Let(SumInts([i \in 1..Len(populations) |-> IF covered(i) THEN populations[i].v ELSE 0]),
          LAMBDA coveredPop :
      Let(SumRats([i \in 1..Len(populations) |->
                     IF covered(i)
                     THEN RatMulInt(MapGet(countryRates, populations[i].k), populations[i].v)
                     ELSE RatInt(0)]),
          LAMBDA weightedSum :
        [year |-> year, skip |-> totalPop <= 0 \/ coveredPop <= 0,
         value |-> IF coveredPop > 0 THEN RatDiv(weightedSum, RatInt(coveredPop))
                   ELSE RatInt(0),
         coverage |-> IF totalPop > 0 THEN Rat(coveredPop, totalPop) ELSE RatInt(0)])))

HomicideComputed(countryRates, populations) ==
  LetSeq(SortAsc(KeyYears(populations)), LAMBDA sortedYears :
    LetSeq(SelectSeq([i \in 1..Len(sortedYears) |->
                        HomicideComputedYear(countryRates, populations, sortedYears[i])],
                     LAMBDA c : ~c.skip),
           LAMBDA kept :
      [i \in 1..Len(kept) |->
         [k |-> kept[i].year,
          v |-> [value |-> kept[i].value, coverage |-> kept[i].coverage]]]))

HybridAlwaysBottomUp(computed, hasComputed, hasWld) ==
  IF hasComputed THEN "bottom_up" ELSE IF hasWld THEN "wld" ELSE "none"

\* The choice made for one year of hybridYears (part_004 lines 297-335):
\* "bottom_up" (coverage >= 0.95), "wld" (fallback), "bottom_up_low" (no WLD value:
\* the computed value is used whatever its coverage), "none" (throw).
HybridChoice(computed, hasComputed, hasWld) ==
  IF hasComputed /\ RatLe(HomicideMinCoverage, computed.coverage) THEN "bottom_up"
  ELSE IF hasWld THEN "wld"
  ELSE IF hasComputed THEN "bottom_up_low"
  ELSE "none"

\* One round of the loop over hybridYears.
HybridYear(wldByYear, computedByYear, year) ==
  LET hasComputed == MapHas(computedByYear, year)
      hasWld == MapHas(wldByYear, year)
  IN  Let(IF hasComputed THEN MapGet(computedByYear, year)
          ELSE [value |-> RatInt(0), coverage |-> RatInt(0)],
          LAMBDA computed :
            Let(HybridChoice(computed, hasComputed, hasWld), LAMBDA choice :
              [year |-> year, computed |-> hasComputed, wld |-> hasWld,
               cov |-> computed.coverage, bottomUp |-> computed.value,
               choice |-> choice, kept |-> choice # "none",
               value |-> IF choice = "wld" THEN RatInt(MapGet(wldByYear, year))
                         ELSE computed.value]))

HomicideOutput(hybridYears, diag) ==
  IF Len(hybridYears) = 0 THEN Result("homicide_rate", "failed", <<>>, <<>>, diag)
  ELSE IF \E i \in 1..Len(diag) : ~diag[i].kept
  THEN Result("homicide_rate", "failed", <<>>, <<>>, diag)
  ELSE Result("homicide_rate", "ok", <<"public/data/homicide_rate.json">>,
              SortByYear(KeptPoints(diag, 3)), diag)

HomicideRun(homicideRows, popRows) ==
  Let(loadHomicideRates(homicideRows), LAMBDA loaded :
    LetSeq(loadPopulations(popRows), LAMBDA populations :
      LetSeq(HomicideComputed(loaded.countryRates, populations), LAMBDA computedByYear :
        LetSeq(SortAsc(Distinct(MapKeys(computedByYear) \o MapKeys(loaded.wldByYear))),
               LAMBDA hybridYears :
          LetSeq([i \in 1..Len(hybridYears) |->
                    HybridYear(loaded.wldByYear, computedByYear, hybridYears[i])],
                 LAMBDA diag : HomicideOutput(hybridYears, diag))))))

(***************************************************************************)
(* death_registration_completeness                                         *)
(***************************************************************************)
DEATH_REG_START_YEAR == 1990
DEATH_REG_END_YEAR == 2023

\* Math.min(max, Math.max(min, value))
clamp(value, min, max) ==
  LET lo == IF value > min THEN value ELSE min
  IN  IF lo < max THEN lo ELSE max

\* loadDeathRegistration: one CountryPoint per usable row; an empty value cell is
\* skipped; repeated rows of a country-year are all kept.
loadDeathRegistration(rows) ==
  LET usable(row) ==
        /\ isCountryIso(row.iso)
        /\ ~(row.year < DEATH_REG_START_YEAR \/ row.year > DEATH_REG_END_YEAR)
        /\ row.value.t = "num"
      kept == SelectSeq(rows, usable)
  IN  [i \in 1..Len(kept) |->
         [iso3 |-> kept[i].iso, year |-> kept[i].year,
          value |-> clamp(kept[i].value.n, 0, 100)]]

\* loadPopulation of the death-registration script: populationByIsoYear (the last
\* row of a key wins) and worldPopulation (the WLD rows).
DeathRegLoadPopulation(rows) ==
  LET step(acc, row) ==
        LET pop == JsNumber(row.value)
        IN  IF isNaN(pop) \/ pop.n <= 0 THEN acc
            ELSE IF row.iso = ISO_WLD
            THEN [acc EXCEPT !.worldPopulation = MapSet(@, row.year, pop.n)]
            ELSE IF ~isCountryIso(row.iso) THEN acc
            ELSE [acc EXCEPT !.populationByIsoYear =
                    MapSet(@, Key(row.iso, row.year), pop.n)]
  IN  FoldLeft(step, [populationByIsoYear |-> <<>>, worldPopulation |-> <<>>], rows)

DeathRegYear(joined, pops, year) ==
  LET in(i) == joined[i].year = year
      popOf(r) == MapGet(pops, Key(r.iso3, r.year))
  IN  Let(SumInts([i \in 1..Len(joined) |->
                     IF in(i) THEN joined[i].value * popOf(joined[i]) ELSE 0]),
          LAMBDA weighted :
      Let(SumInts([i \in 1..Len(joined) |-> IF in(i) THEN popOf(joined[i]) ELSE 0]),
          LAMBDA pop :
        [year |-> year, kept |-> pop # 0, pop |-> pop,
         value |-> IF pop # 0 THEN Rat(weighted, pop) ELSE RatInt(0)]))

\* run(): statsByYear accumulated row by row, then one point per year; both files
\* are written whatever the series holds, and nothing throws.
DeathRegRun(deathCsv, popCsv) ==
  LetSeq(loadDeathRegistration(deathCsv), LAMBDA deathRows :
    LetSeq(DeathRegLoadPopulation(popCsv).populationByIsoYear, LAMBDA pops :
      LetSeq(SelectSeq(deathRows, LAMBDA r : MapHas(pops, Key(r.iso3, r.year))),
             LAMBDA joined :
        LetSeq(SortAsc(Distinct([i \in 1..Len(joined) |-> joined[i].year])), LAMBDA years :
          LetSeq([i \in 1..Len(years) |-> DeathRegYear(joined, pops, years[i])],
                 LAMBDA diag :
            Result("death_registration_completeness", "ok",
                   <<"public/data/death_registration_completeness.json",
                     "public/data/death_registration_completeness_by_country.json">>,
                   KeptPoints(diag, 1), diag))))))

(***************************************************************************)
(* firearm_stock_per_100, TypeScript pipeline                              *)
(***************************************************************************)
FIREARM_MIN_YEAR == 1800
FIREARM_MAX_GAP == 5
FIREARM_MAX_VALUE == 120

FirearmMinCoverage == Rat(3, 10)

\* normalizeSas / normalizeWdi: a row with an empty cell is dropped.
normalizeSas(rows) ==
  LET kept == SelectSeq(rows, LAMBDA row :
                 row.iso # "" /\ row.value.t = "num" /\ ~(row.year < FIREARM_MIN_YEAR))
  IN  [i \in 1..Len(kept) |->
         [iso3 |-> toUpperCase(kept[i].iso), year |-> kept[i].year,
          civilian_firearms |-> kept[i].value.n]]

normalizeWdi(rows) ==
  LET kept == SelectSeq(rows, LAMBDA row :
                 /\ row.iso # "" /\ row.value.t = "num"
                 /\ ~(row.year < FIREARM_MIN_YEAR) /\ ~(row.value.n <= 0))
  IN  [i \in 1..Len(kept) |->
         [iso3 |-> toUpperCase(kept[i].iso), year |-> kept[i].year,
          population |-> kept[i].value.n]]

\* new Map of `${iso3}:${year}` -> population, filled row by row.
PopulationIndex(wdi) ==
  FoldLeft(LAMBDA m, row : MapSet(m, Key(row.iso3, row.year), row.population), <<>>, wdi)

joinDatasets(sas, wdi) ==
  LetSeq(PopulationIndex(wdi), LAMBDA populationIndex :
    LetSeq(SelectSeq(sas, LAMBDA row :
                       /\ MapHas(populationIndex, Key(row.iso3, row.year))
                       /\ ~(row.civilian_firearms <= 0)),
           LAMBDA kept :
      [i \in 1..Len(kept) |->
         Let(MapGet(populationIndex, Key(kept[i].iso3, kept[i].year)), LAMBDA population :
           [iso3 |-> kept[i].iso3, year |-> kept[i].year, population |-> population,
            per100 |-> Rat(kept[i].civilian_firearms * 100, population)])]))

\* totalPopulationByYear.get(year): the sum over every WDI row of the year.
TotalPopulationOfYear(wdi, year) ==
  SumInts([i \in 1..Len(wdi) |-> IF wdi[i].year = year THEN wdi[i].population ELSE 0])

AggregateYear(rows, wdi, year) ==
  LET in(i) == rows[i].year = year
      hasTotal == \E i \in 1..Len(wdi) : wdi[i].year = year
  IN  Let(SumRats([i \in 1..Len(rows) |->
                     IF in(i) THEN RatMulInt(rows[i].per100, rows[i].population)
                     ELSE RatInt(0)]),
          LAMBDA numerator :
      Let(SumInts([i \in 1..Len(rows) |-> IF in(i) THEN rows[i].population ELSE 0]),
          LAMBDA denominator :
      Let(IF hasTotal THEN TotalPopulationOfYear(wdi, year) ELSE denominator,
          LAMBDA totalPop :
        [year |-> year,
         value |-> RatDiv(numerator, RatInt(denominator)),
         coverage |-> IF totalPop > 0 THEN Rat(denominator, totalPop) ELSE RatInt(0)])))

aggregateByYear(rows, wdi) ==
  LetSeq(Distinct([i \in 1..Len(rows) |-> rows[i].year]), LAMBDA years :
    SortByYear([i \in 1..Len(years) |-> AggregateYear(rows, wdi, years[i])]))

\* the filter of run(): coverage > 0 and coverage >= 0.3
FirearmGate(coverage) ==
  ~(RatLe(coverage, RatInt(0))) /\ ~(RatLt(coverage, FirearmMinCoverage))

\* ensureContinuity / ensureRange return normally
ContinuityOk(series) ==
  \A i \in 2..Len(series) : ~(series[i].year - series[i - 1].year > FIREARM_MAX_GAP)
RangeOk(series) ==
  \A i \in 1..Len(series) :
    ~(series[i].rounded < 0 \/ series[i].rounded > FIREARM_MAX_VALUE * Pow10(3))

FirearmFiles ==
  <<"public/data/firearm_stock_per_100.json",
    "scripts/logs/firearm_stock_per_100.gaisum.json">>

FirearmTsOutput(series, diag) ==
  IF ~ContinuityOk(series) \/ ~RangeOk(series) \/ Len(series) = 0
  THEN Result("firearm_stock_per_100", "failed", <<>>, series, diag)
  ELSE Result("firearm_stock_per_100", "ok", FirearmFiles, series, diag)

FirearmTsRun(sasCsv, wdiCsv) ==
  LetSeq(normalizeSas(sasCsv), LAMBDA sasRows :
    LetSeq(normalizeWdi(wdiCsv), LAMBDA wdiRows :
      LetSeq(aggregateByYear(joinDatasets(sasRows, wdiRows), wdiRows), LAMBDA aggregated :
        LetSeq([i \in 1..Len(aggregated) |->
                  [year |-> aggregated[i].year, cov |-> aggregated[i].coverage,
                   value |-> aggregated[i].value,
                   kept |-> FirearmGate(aggregated[i].coverage)]],
               LAMBDA diag :
          LetSeq(KeptPoints(diag, 3), LAMBDA series : FirearmTsOutput(series, diag))))))

(***************************************************************************)
(* firearm_stock_per_100, committed JS pipeline                            *)
(***************************************************************************)
\* the two normalisations: +cell, and the filter iso3 && year integer && number > 0
FirearmJsNormalize(csv, field) ==
  LetSeq(SelectSeq(csv, LAMBDA r : r.iso # "" /\ JsNumber(r.value).n > 0), LAMBDA kept :
    [i \in 1..Len(kept) |->
       [iso3 |-> toUpperCase(kept[i].iso), year |-> kept[i].year,
        civilian_firearms |-> IF field = "civilian_firearms" THEN JsNumber(kept[i].value).n ELSE 0,
        population |-> IF field = "population" THEN JsNumber(kept[i].value).n ELSE 0]])

FirearmJsJoin(sas, wdi) ==
  LetSeq(PopulationIndex(wdi), LAMBDA pop :
    LetSeq(SelectSeq(sas, LAMBDA r : MapHas(pop, Key(r.iso3, r.year))), LAMBDA matched :
      [i \in 1..Len(matched) |->
         Let(MapGet(pop, Key(matched[i].iso3, matched[i].year)), LAMBDA P :
           [year |-> matched[i].year, population |-> P,
            per100 |-> Rat(matched[i].civilian_firearms * 100, P)])]))

FirearmJsYear(joined, wdi, y) ==
  LET in(i) == joined[i].year = y
  IN  Let(SumRats([i \in 1..Len(joined) |->
                     IF in(i) THEN RatMulInt(joined[i].per100, joined[i].population)
                     ELSE RatInt(0)]),
          LAMBDA anum :
      Let(SumInts([i \in 1..Len(joined) |-> IF in(i) THEN joined[i].population ELSE 0]),
          LAMBDA denom :
      Let(TotalPopulationOfYear(wdi, y), LAMBDA total :
        LET totalPop == IF total # 0 THEN total ELSE denom
            value == RatDiv(anum, RatInt(denom))
            coverage == IF totalPop > 0 THEN Rat(denom, totalPop) ELSE RatInt(0)
        IN  [year |-> y, cov |-> coverage, value |-> value,
             kept |-> RatLt(RatInt(0), value) /\ FirearmGate(coverage)])))

\* the series is written, then the log: no check looks at the series being empty
FirearmJsOutput(series, diag) ==
  IF ~ContinuityOk(series) \/ ~RangeOk(series)
  THEN Result("firearm_stock_per_100.js", "failed", <<>>, series, diag)
  ELSE Result("firearm_stock_per_100.js", "ok", FirearmFiles, series, diag)

FirearmJsRun(sasCsv, wdiCsv) ==
  LetSeq(FirearmJsNormalize(sasCsv, "civilian_firearms"), LAMBDA sas :
    LetSeq(FirearmJsNormalize(wdiCsv, "population"), LAMBDA wdi :
      LetSeq(FirearmJsJoin(sas, wdi), LAMBDA joined :
        LetSeq(Distinct([i \in 1..Len(joined) |-> joined[i].year]), LAMBDA years :
          LetSeq(SortByYear([i \in 1..Len(years) |-> FirearmJsYear(joined, wdi, years[i])]),
                 LAMBDA diag :
            LetSeq(SortByYear(KeptPoints(diag, 3)), LAMBDA series :
              FirearmJsOutput(series, diag)))))))

(***************************************************************************)
(* battle_deaths.  A UCDP row is [year, type (the type_of_conflict code),  *)
(* value (the death cell)]; a population row is [year, value].             *)
(***************************************************************************)
BATTLE_START_YEAR == 1990
YEAR_MIN == 1900
YEAR_MAX == 2100
\* TOLERANCE = 0.02, in thousandths
TOLERANCE_MILLI == 20
PER_100K == 100000

TYPE_CODES == <<"1", "2", "3", "4">>
TYPE_ORDER == <<"interstate", "intrastate", "internationalized_intrastate", "extrasystemic">>

TypeOf(code) ==
  IF \E i \in 1..4 : TYPE_CODES[i] = code
  THEN TYPE_ORDER[CHOOSE i \in 1..4 : TYPE_CODES[i] = code] ELSE ""

\* loadPopulation of the battle-deaths script: year -> world population.
BattleLoadPopulation(rows) ==
  LET step(m, row) ==
        LET value == JsNumber(row.value)
        IN  IF row.year < YEAR_MIN \/ row.year > YEAR_MAX \/ isNaN(value) \/ value.n <= 0
            THEN m ELSE MapSet(m, row.year, value.n)
  IN  FoldLeft(step, <<>>, rows)

\* The row loop of run(): true when some row makes it throw.
BattleRowsInvalid(rows) ==
  \E i \in 1..Len(rows) :
    \/ rows[i].year < YEAR_MIN \/ rows[i].year > YEAR_MAX
    \/ TypeOf(rows[i].type) = ""
    \/ JsNumber(rows[i].value).n < 0

\* deathsByYearType.get(year).get(type) ?? 0
BattleDeaths(rows, year, type) ==
  SumInts([i \in 1..Len(rows) |->
     IF rows[i].year = year /\ TypeOf(rows[i].type) = type
     THEN JsNumber(rows[i].value).n ELSE 0])

Last(s) == s[Len(s)]

\* for (let year = START_YEAR; year <= maxCommonYear; year++)
YearRange(from, to) == [i \in 1..(IF to < from THEN 0 ELSE to - from + 1) |-> from + i - 1]

\* Math.floor in place of Math.round.
FloorScaled(value, decimals) == (value.n * Pow10(decimals)) \div value.d

\* roundN of the battle-deaths script, as the scaled integer.
roundN(value, decimals) == RoundScaled(value, decimals)

BattleYear(rows, popSeries, year) ==
  Let(MapGet(popSeries, year), LAMBDA pop :
    LetSeq([t \in 1..4 |-> BattleDeaths(rows, year, TYPE_ORDER[t])], LAMBDA deaths :
      LetSeq([t \in 1..4 |-> roundN(Rat(deaths[t] * PER_100K, pop), 3)],
             LAMBDA perType :
        Let(roundN(Rat(SumInts(deaths) * PER_100K, pop), 3), LAMBDA totalValue :
          Let(SumInts(perType), LAMBDA sumRounded :
            [year |-> year, kept |-> TRUE, value |-> Rat(SumInts(deaths) * PER_100K, pop),
             total |-> totalValue, interstate |-> perType[1],
             byType |-> perType, sumRounded |-> sumRounded,
             toleranceOk |->
               ~((IF sumRounded < totalValue THEN totalValue - sumRounded
                  ELSE sumRounded - totalValue) > TOLERANCE_MILLI)])))))

MaxOf(s) == CHOOSE x \in SeqToSet(s) : \A y \in SeqToSet(s) : y <= x

BattleFiles ==
  <<"public/data/battle_deaths_total.json", "public/data/battle_deaths_by_type.json",
    "public/data/battle_deaths_interstate.json", "public/data/battle_deaths.json">>

BattleFailed(series, diag) == Result("battle_deaths", "failed", <<>>, series, diag)

\* The loop over years, the four writes, and the placeholder (all-zero) guard that
\* follows the writes.
BattleOutput(diag, allowPlaceholders) ==
  LET totalSeries == KeptPoints(diag, 3)
      placeholder ==
        ~allowPlaceholders
        /\ (MaxOf([i \in 1..Len(diag) |-> diag[i].total]) = 0
            \/ MaxOf([i \in 1..Len(diag) |-> diag[i].interstate]) = 0)
  IN  IF \E i \in 1..Len(diag) : ~diag[i].toleranceOk THEN BattleFailed(totalSeries, diag)
      ELSE IF placeholder
      THEN Result("battle_deaths", "failed", BattleFiles, totalSeries, diag)
      ELSE Result("battle_deaths", "ok", BattleFiles, totalSeries, diag)

\* The year range START_YEAR..maxCommonYear and the two missing-year checks.
\* The years of the range that have UCDP rows and a population, the others left
\* out without an error.
BattleRangeSkippingGaps(rows, popSeries, availableYears, populationYears, allowPlaceholders) ==
  LetSeq(SelectSeq(YearRange(BATTLE_START_YEAR,
                             IF Last(availableYears) < Last(populationYears)
                             THEN Last(availableYears) ELSE Last(populationYears)),
                   LAMBDA y : (\E i \in 1..Len(rows) : rows[i].year = y)
                              /\ MapHas(popSeries, y)),
         LAMBDA years :
    IF Len(years) = 0 THEN BattleFailed(<<>>, <<>>)
    ELSE LetSeq([i \in 1..Len(years) |-> BattleYear(rows, popSeries, years[i])],
                LAMBDA diag : BattleOutput(diag, allowPlaceholders)))

BattleRange(rows, popSeries, availableYears, populationYears, allowPlaceholders) ==
  LetSeq(YearRange(BATTLE_START_YEAR,
                   IF Last(availableYears) < Last(populationYears)
                   THEN Last(availableYears) ELSE Last(populationYears)),
         LAMBDA years :
    IF \E k \in 1..Len(years) :
         (\A i \in 1..Len(rows) : rows[i].year # years[k]) \/ ~MapHas(popSeries, years[k])
    THEN BattleFailed(<<>>, <<>>)
    ELSE LetSeq([i \in 1..Len(years) |-> BattleYear(rows, popSeries, years[i])],
                LAMBDA diag : BattleOutput(diag, allowPlaceholders)))

BattleRun(rows, popRows, allowPlaceholders) ==
  LetSeq(BattleLoadPopulation(popRows), LAMBDA popSeries :
    LetSeq(SortAsc(SelectSeq(Distinct([i \in 1..Len(rows) |-> rows[i].year]),
                             LAMBDA y : y >= BATTLE_START_YEAR)),
           LAMBDA availableYears :
      LetSeq(SortAsc(SelectSeq(MapKeys(popSeries), LAMBDA y : y >= BATTLE_START_YEAR)),
             LAMBDA populationYears :
        IF Len(rows) = 0 \/ BattleRowsInvalid(rows) \/ Len(popSeries) = 0
        THEN BattleFailed(<<>>, <<>>)
        ELSE IF Len(availableYears) = 0 \/ Len(populationYears) = 0
        THEN BattleFailed(<<>>, <<>>)
        ELSE BattleRange(rows, popSeries, availableYears, populationYears,
                         allowPlaceholders))))

(***************************************************************************)
(* military_expenditure_per_capita.  The world rows of the three files are *)
(* lists of [year, value] cells in file order.                             *)
(***************************************************************************)
DEFLATOR_BASE_YEAR == 2020

\* toNumber(cell) kept only when truthy and > 0: year -> number, last cell wins.
PositiveByYear(cells) ==
  LET step(m, c) == IF c.value.t = "num" /\ c.value.n > 0
                    THEN MapSet(m, c.year, c.value.n) ELSE m
  IN  FoldLeft(step, <<>>, cells)

\* assertAscending returns normally
assertAscending(series) ==
  \A i \in 2..Len(series) : ~(series[i].year <= series[i - 1].year)

\* The deflation with the base index taken to be 100 whatever the file holds.
MilexYearFixedBase(worldTotals, population, indexByYear, year) ==
  LET has == MapHas(population, year) /\ MapHas(indexByYear, year)
  IN  [year |-> year, kept |-> has,
       value |-> IF has
                 THEN Rat(MapGet(worldTotals, year) * 100,
                          MapGet(population, year) * MapGet(indexByYear, year))
                 ELSE RatInt(0)]

MilexYear(worldTotals, population, indexByYear, year) ==
  LET has == MapHas(population, year) /\ MapHas(indexByYear, year)
  IN  [year |-> year, kept |-> has,
       value |-> IF has
                 THEN Rat(MapGet(worldTotals, year) * MapGet(indexByYear, DEFLATOR_BASE_YEAR),
                          MapGet(population, year) * MapGet(indexByYear, year))
                 ELSE RatInt(0)]

MilexFiles ==
  <<"public/data/military_expenditure_per_capita_constant_usd.json",
    "scripts/logs/military_expenditure_per_capita_constant_usd.gaisum.json">>

MilexOutput(series, diag) ==
  IF ~assertAscending(series) \/ Len(series) = 0
  THEN Result("military_expenditure_per_capita", "failed", <<>>, series, diag)
  ELSE Result("military_expenditure_per_capita", "ok", MilexFiles, series, diag)

MilexRun(worldCells, popCells, deflatorRows) ==
  LetSeq(PositiveByYear(worldCells), LAMBDA worldTotals :
    LetSeq(PositiveByYear(popCells), LAMBDA population :
      LetSeq(PositiveByYear(deflatorRows), LAMBDA indexByYear :
        IF Len(worldTotals) = 0 \/ Len(population) = 0
           \/ ~MapHas(indexByYear, DEFLATOR_BASE_YEAR)
        THEN Result("military_expenditure_per_capita", "failed", <<>>, <<>>, <<>>)
        ELSE LetSeq(SortAsc(MapKeys(worldTotals)), LAMBDA sortedYears :
               LetSeq([i \in 1..Len(sortedYears) |->
                         MilexYear(worldTotals, population, indexByYear, sortedYears[i])],
                      LAMBDA diag :
                 LetSeq(SortByYear(KeptPoints(diag, 1)), LAMBDA series :
                   MilexOutput(series, diag)))))))

(***************************************************************************)
(* internet_shutdown_days: time.  Instants are counted in ticks of         *)
(* 1/TicksPerDay day since 1 January of EpochYear, 00:00 UTC.              *)
(***************************************************************************)
TicksPerDay == 2

SHUTDOWN_START_YEAR == 2016

\* The calendar of the model: the year before START_YEAR up to three years after.
EpochYear == SHUTDOWN_START_YEAR - 1
LastYear == SHUTDOWN_START_YEAR + 3

IsLeap(y) == y % 4 = 0 /\ (y % 100 # 0 \/ y % 400 = 0)
DaysIn(y) == IF IsLeap(y) THEN 366 ELSE 365

\* Date.UTC(year, 0, 1)
YearStart(year) ==
  LET f[y \in EpochYear..(LastYear + 1)] ==
        IF y = EpochYear THEN 0 ELSE f[y - 1] + DaysIn(y - 1) * TicksPerDay
  IN  f[year]

\* new Date(ms).getUTCFullYear()
getUTCFullYear(t) ==
  CHOOSE y \in EpochYear..LastYear : YearStart(y) <= t /\ t < YearStart(y + 1)

Interval(iso3, year, startMs, endMs) ==
  [iso3 |-> iso3, year |-> year, startMs |-> startMs, endMs |-> endMs]

\* One interval per year from the start year to the end year, not clipped.
splitUnclipped(event) ==
  LET years == YearRange(getUTCFullYear(event.startMs), getUTCFullYear(event.endMs - 1))
  IN  [i \in 1..Len(years) |-> Interval(event.iso3, years[i], event.startMs, event.endMs)]

splitByYear(event) ==
  LET startYear == getUTCFullYear(event.startMs)
      endYear == getUTCFullYear(event.endMs - 1)
      years == YearRange(startYear, endYear)
      clip(year) ==
        LET yearStart == YearStart(year)
            yearEnd == YearStart(year + 1)
        IN  Interval(event.iso3, year,
                     IF event.startMs > yearStart THEN event.startMs ELSE yearStart,
                     IF event.endMs < yearEnd THEN event.endMs ELSE yearEnd)
      all == [i \in 1..Len(years) |-> clip(years[i])]
  IN  SelectSeq(all, LAMBDA iv : ~(iv.endMs <= iv.startMs))

\* sort((a, b) => a.startMs === b.startMs ? a.endMs - b.endMs : a.startMs - b.startMs)
SortIntervals(s) ==
  LET le(a, b) == IF a.startMs = b.startMs THEN a.endMs <= b.endMs
                  ELSE a.startMs < b.startMs
      ins(sorted, x) ==
        LET n == Cardinality({i \in 1..Len(sorted) : le(sorted[i], x)})
        IN  SubSeq(sorted, 1, n) \o <<x>> \o SubSeq(sorted, n + 1, Len(sorted))
  IN  FoldLeft(ins, <<>>, s)

SumDurations(intervals) ==
  SumInts([i \in 1..Len(intervals) |-> intervals[i].endMs - intervals[i].startMs])

\* mergeIntervals, in ticks (the code divides the same total by MS_PER_DAY).
mergeTicks(intervals) ==
  IF Len(intervals) = 0 THEN 0
  ELSE
    LetSeq(SortIntervals(intervals), LAMBDA sorted :
      LET step(p, interval) ==
            IF interval.startMs <= p.currentEnd
            THEN [p EXCEPT !.currentEnd = IF @ > interval.endMs THEN @ ELSE interval.endMs]
            ELSE [total |-> p.total + (p.currentEnd - p.currentStart),
                  currentStart |-> interval.startMs,
                  currentEnd |-> interval.endMs]
      IN  Let(FoldLeft(step,
                       [total |-> 0, currentStart |-> sorted[1].startMs,
                        currentEnd |-> sorted[1].endMs],
                       Tail(sorted)),
              LAMBDA last : last.total + (last.currentEnd - last.currentStart)))

\* The days of the intervals added up, an overlap counted twice.
sumIntervalDays(intervals) == Rat(SumDurations(intervals), TicksPerDay)

\* mergeIntervals: days, as an exact rational
mergeIntervals(intervals) == Rat(mergeTicks(intervals), TicksPerDay)

(***************************************************************************)
(* internet_shutdown_days: country resolution                              *)
(***************************************************************************)
Digits == {"0", "1", "2", "3", "4", "5", "6", "7", "8", "9"}

IsAlnum(c) == c \in Digits \/ \E i \in 1..26 : UpperSeq[i] = c \/ LowerSeq[i] = c

\* value.replace(/[^a-z0-9]/gi, "").toUpperCase(); on the ASCII names drawn here
\* normalize("NFKD") and the removal of combining marks change nothing.
canonicalizeCountry(value) ==
  MapChars(value, LAMBDA c : IF IsAlnum(c) THEN ToUpperChar(c) ELSE "")

\* s.trim(), for the blanks of ASCII text
Trim(s) ==
  LET idx == {i \in 1..Len(s) : SubSeq(s, i, i) # " "}
      lo == CHOOSE i \in idx : \A j \in idx : i <= j
      hi == CHOOSE i \in idx : \A j \in idx : j <= i
  IN  IF idx = {} THEN "" ELSE SubSeq(s, lo, hi)

\* The alias table as written in the source: [key, iso3] in source order (the
\* keys holding a non-ASCII letter are left out: no name drawn here has one).
STOP_ALIAS_TO_ISO ==
  <<
    <<"AFGHANISTAN", "AFG">>, <<"BOLIVIA(BOLIVARIANREPUBLICOF)", "BOL">>,
    <<"BOLIVIA(BOLIVARIANREPUBLIC)", "BOL">>,
    <<"BOSNIAANDHERZEGOVINA", "BIH">>, <<"BRUNEIDARUSSALAM", "BRN">>,
    <<"CABOVERDE", "CPV">>, <<"CAPEVERDE", "CPV">>,
    <<"CONGO(BRAZZAVILLE)", "COG">>, <<"CONGO(KINSHASA)", "COD">>,
    <<"DEMOCRATICREPUBLICOFTHECONGO", "COD">>,
    <<"DEMOCRATICREPUBLICOFCONGO", "COD">>,
    <<"REPUBLICOFTHECONGO", "COG">>, <<"REPUBLICOFCONGO", "COG">>,
    <<"COTEDIVOIRE", "CIV">>, <<"IVORYCOAST", "CIV">>,
    <<"COTED'IVOIRE", "CIV">>, <<"COTEDIVOIRE(REPUBLICOF)", "CIV">>,
    <<"COTEIVOIRE", "CIV">>, <<"LAOPEOPLE'SDEMOCRATICREPUBLIC", "LAO">>,
    <<"LAOPEOPLEDEMOCRATICREPUBLIC", "LAO">>, <<"LAOS", "LAO">>,
    <<"MOLDOVA(REPUBLICOF)", "MDA">>, <<"MOLDOVA", "MDA">>,
    <<"MYANMAR(BURMA)", "MMR">>, <<"BURMA", "MMR">>,
    <<"RUSSIANFEDERATION", "RUS">>, <<"RUSSIA", "RUS">>,
    <<"SOUTHKOREA", "KOR">>, <<"NORTHKOREA", "PRK">>,
    <<"REPUBLICOFKOREA", "KOR">>,
    <<"DEMOCRATICPEOPLE'SREPUBLICOFKOREA", "PRK">>,
    <<"SYRIANARABREPUBLIC", "SYR">>, <<"SYRIA", "SYR">>,
    <<"UNITEDSTATES", "USA">>, <<"UNITEDSTATESOFAMERICA", "USA">>,
    <<"UNITEDKINGDOM", "GBR">>,
    <<"UNITEDKINGDOMOFGREATBRITAINANDNORTHERNIRELAND", "GBR">>,
    <<"GREATBRITAIN", "GBR">>, <<"UAE", "ARE">>,
    <<"UNITEDARABEMIRATES", "ARE">>,
    <<"TANZANIA,UNITEDREPUBLICOF", "TZA">>, <<"TANZANIA", "TZA">>,
    <<"TIMOR-LESTE", "TLS">>, <<"EASTTIMOR", "TLS">>, <<"VIETNAM", "VNM">>,
    <<"VENEZUELA(BOLIVARIANREPUBLICOF)", "VEN">>, <<"VENEZUELA", "VEN">>,
    <<"PALESTINE", "PSE">>, <<"STATEOFPALISTINE", "PSE">>,
    <<"STATEOFPLESTINE", "PSE">>, <<"WESTBANKANDGAZA", "PSE">>,
    <<"KOSOVO", "XKX">>, <<"SWAZILAND", "SWZ">>, <<"ESWATINI", "SWZ">>,
    <<"GAMBIA", "GMB">>, <<"THEGAMBIA", "GMB">>, <<"BAHAMAS", "BHS">>,
    <<"BAHAMAS,THE", "BHS">>, <<"GAMBIA,THE", "GMB">>,
    <<"IRAN(ISLAMICREPUBLICOF)", "IRN">>, <<"IRAN", "IRN">>,
    <<"BOLIVARIANREPUBLICOFVENEZUELA", "VEN">>,
    <<"KOREA,REPUBLICOF", "KOR">>,
    <<"KOREA,DEMPEOPLE'SREPUBLICOF", "PRK">>,
    <<"BOSNIA&HERZEGOVINA", "BIH">>, <<"SAOTOMEANDPRINCIPE", "STP">>,
    <<"SAOTOME&PRINCIPE", "STP">>, <<"TRINIDADANDTOBAGO", "TTO">>,
    <<"ANTIGUAANDBARBUDA", "ATG">>, <<"ST.KITTSANDNEVIS", "KNA">>,
    <<"STKITTSANDNEVIS", "KNA">>, <<"ST.VINCENTANDTHEGRENADINES", "VCT">>,
    <<"STVINCENTANDTHEGRENADINES", "VCT">>,
    <<"BOSNIA-HERZEGOVINA", "BIH">>, <<"DOMINICANREPUBLIC", "DOM">>,
    <<"CENTRALAFRICANREPUBLIC", "CAF">>,
    <<"REPUBLICOFTHEPHILIPPINES", "PHL">>, <<"PHILIPPINES", "PHL">>,
    <<"SUDAN", "SDN">>, <<"SOUTHSUDAN", "SSD">>,
    <<"UNITEDREPUBLICOFTANZANIA", "TZA">>, <<"HONGKONG", "HKG">>,
    <<"HONGKONGSAR", "HKG">>, <<"MACAO", "MAC">>, <<"MACAOSAR", "MAC">>,
    <<"MACAU", "MAC">>, <<"MACAUSAR", "MAC">>,
    <<"REPUBLICOFMOLDOVA", "MDA">>, <<"CZECHREPUBLIC", "CZE">>,
    <<"SLOVAKREPUBLIC", "SVK">>, <<"SAINTLUCIA", "LCA">>
  >>

AliasHas(key) == \E i \in 1..Len(STOP_ALIAS_TO_ISO) : STOP_ALIAS_TO_ISO[i][1] = key
AliasGet(key) ==
  STOP_ALIAS_TO_ISO[CHOOSE i \in 1..Len(STOP_ALIAS_TO_ISO) : STOP_ALIAS_TO_ISO[i][1] = key][2]

\* isCountryIso of the shutdown script: the code is upper-cased before the test.
ShutdownIsCountryIso(code) == code # "" /\ isCountryIso(toUpperCase(code))

\* A population row of the shutdown script: [iso, year, value, name].
PopRow(iso, year, value, name) == [iso |-> iso, year |-> year, value |-> value, name |-> name]

\* loadPopulation: populationByIsoYear keeps the last row of a key,
\* totalPopulationByYear adds every row, the two name maps keep the first name.
ShutdownLoadPopulation(rows) ==
  LET step(acc, row) ==
        LET iso == toUpperCase(Trim(row.iso))
            population == JsNumber(row.value)
            name == Trim(row.name)
            canonical == canonicalizeCountry(name)
            total == IF MapHas(acc.totalPopulationByYear, row.year)
                     THEN MapGet(acc.totalPopulationByYear, row.year) ELSE 0
        IN  IF isNaN(population) \/ population.n <= 0 \/ iso = ISO_WLD
               \/ ~ShutdownIsCountryIso(iso)
            THEN acc
            ELSE [populationByIsoYear |->
                    MapSet(acc.populationByIsoYear, Key(iso, row.year), population.n),
                  totalPopulationByYear |->
                    MapSet(acc.totalPopulationByYear, row.year, total + population.n),
                  canonicalNameToIso |->
                    IF name # "" /\ ~MapHas(acc.canonicalNameToIso, canonical)
                    THEN MapSet(acc.canonicalNameToIso, canonical, iso)
                    ELSE acc.canonicalNameToIso,
                  isoToCountryName |->
                    IF name # "" /\ ~MapHas(acc.isoToCountryName, iso)
                    THEN MapSet(acc.isoToCountryName, iso, name)
                    ELSE acc.isoToCountryName]
  IN  FoldLeft(step,
               [populationByIsoYear |-> <<>>, totalPopulationByYear |-> <<>>,
                canonicalNameToIso |-> <<>>, isoToCountryName |-> <<>>],
               rows)

\* iso3 = "" stands for null.
Unresolved == ""

resolveIsoForEvent(event, population) ==
  LET isoHint == event.iso3
      trimmedCountry == Trim(event.country)
      candidate == toUpperCase(trimmedCountry)
      canonical == canonicalizeCountry(trimmedCountry)
      named(iso) == IF MapHas(population.isoToCountryName, iso)
                    THEN MapGet(population.isoToCountryName, iso) ELSE trimmedCountry
      found(iso) == [iso3 |-> iso, countryName |-> named(iso)]
  IN  IF ShutdownIsCountryIso(isoHint) THEN found(toUpperCase(isoHint))
      ELSE IF ShutdownIsCountryIso(candidate) THEN found(candidate)
      ELSE IF AliasHas(canonical) THEN found(AliasGet(canonical))
      ELSE IF MapHas(population.canonicalNameToIso, canonical)
      THEN found(MapGet(population.canonicalNameToIso, canonical))
      ELSE [iso3 |-> Unresolved, countryName |-> trimmedCountry]

(***************************************************************************)
(* internet_shutdown_days: run()                                           *)
(***************************************************************************)
Event(iso3, country, startMs, endMs) ==
  [iso3 |-> iso3, country |-> country, startMs |-> startMs, endMs |-> endMs]

(***************************************************************************)
(* internet_shutdown_days: raw STOP events.  A raw event is a row of the   *)
(* STOP file as parseStopRows returns it.  A date is its parsed parts, or  *)
(* NoDate for a text parseDateParts returns null for; a time of day is     *)
(* NoTime (no text) or its offset from midnight in ticks.  The tick is the *)
(* resolution of the clock: the last instant of a day (23:59:59 in the     *)
(* code) is tick TicksPerDay - 1 of the day.  The approx flag of an event, *)
(* which run() only counts for the log, is left out.                       *)
(***************************************************************************)
DateParts(year, month, day) == [t |-> "date", year |-> year, month |-> month, day |-> day]
NoDate == [t |-> "none", year |-> EpochYear, month |-> 1, day |-> 1]

TimeOfDay(ticks) == [t |-> "time", ticks |-> ticks]
NoTime == [t |-> "none", ticks |-> 0]

RawEvent(country, iso3, startDate, endDate, hasExplicitEndDate, startTime, endTime) ==
  [country |-> country, iso3 |-> iso3, startDate |-> startDate, endDate |-> endDate,
   hasExplicitEndDate |-> hasExplicitEndDate, startTime |-> startTime, endTime |-> endTime]

MonthDays(year) ==
  <<31, IF IsLeap(year) THEN 29 ELSE 28, 31, 30, 31, 30, 31, 31, 30, 31, 30, 31>>

\* Date.UTC(year, month - 1, day, 0, 0, 0); a day past the end of the month runs
\* into the next one.
DateUTC(year, month, day) ==
  YearStart(year) + (SumInts(SubSeq(MonthDays(year), 1, month - 1)) + day - 1) * TicksPerDay

\* parseTime(text, fallbackEnd).time, as an offset from midnight
parseTime(text, fallbackEnd) ==
  IF text.t = "none" THEN (IF fallbackEnd THEN TicksPerDay - 1 ELSE 0) ELSE text.ticks

toUtcTimestamp(dateParts, time) ==
  DateUTC(dateParts.year, dateParts.month, dateParts.day) + time

\* A date-only span ending at the midnight its end day starts with.
exclusiveEndMs(finalEndParts) ==
  DateUTC(finalEndParts.year, finalEndParts.month, finalEndParts.day)

\* The end of a date-only span, extended to the midnight after its end day.
inclusiveEndMs(finalEndParts) ==
  DateUTC(finalEndParts.year, finalEndParts.month, finalEndParts.day + 1)

\* A span of one day from the start.
oneDayEndMs(startMs, cutoffMs) == startMs + TicksPerDay

\* The end of an event without an explicit end date: endMs = cutoffMs.
openEndedEndMs(startMs, cutoffMs) == cutoffMs

\* An end left after the cutoff.
unclippedEndMs(endMs, cutoffMs) == endMs

\* if (endMs > cutoffMs) endMs = cutoffMs
clipEndMs(endMs, cutoffMs) == IF endMs > cutoffMs THEN cutoffMs ELSE endMs

\* parseTime(text, fallbackEnd).approx: the times drawn here are written with a
\* colon.
parseTimeApprox(text) == text.t = "none"

\* The events pushed, each with its approx flag.
normalizeStopEvents(raw, cutoffMs) ==
  LET step(events, entry) ==
        LET startParts == entry.startDate
            endParts == IF entry.hasExplicitEndDate THEN entry.endDate ELSE NoDate
            finalEndParts == IF endParts.t = "date" THEN endParts ELSE startParts
            startMs == toUtcTimestamp(startParts, parseTime(entry.startTime, FALSE))
            dateOnly == entry.endTime.t = "none" /\ entry.startTime.t = "none"
            parsedEnd ==
              IF ~entry.hasExplicitEndDate THEN openEndedEndMs(startMs, cutoffMs)
              ELSE IF dateOnly THEN inclusiveEndMs(finalEndParts)
              ELSE toUtcTimestamp(finalEndParts, parseTime(entry.endTime, TRUE))
            endMs == IF parsedEnd <= startMs THEN startMs + TicksPerDay ELSE parsedEnd
            approx ==
              \/ parseTimeApprox(entry.startTime)
              \/ entry.hasExplicitEndDate /\ parseTimeApprox(entry.endTime)
              \/ ~entry.hasExplicitEndDate
              \/ entry.hasExplicitEndDate /\ (endParts.t = "none" \/ dateOnly)
              \/ parsedEnd <= startMs
              \/ endMs > cutoffMs
        IN  IF startParts.t = "none" THEN events
            ELSE IF startMs >= cutoffMs THEN events
            ELSE Append(events,
                        [iso3 |-> toUpperCase(Trim(entry.iso3)), country |-> entry.country,
                         startMs |-> startMs,
                         endMs |-> clipEndMs(endMs, cutoffMs),
                         approx |-> approx])
  IN  FoldLeft(step, <<>>, raw)

\* loadStopData: the cutoff is the start of the calendar year the run happens in
\* (new Date().getUTCFullYear()); no event at all makes it throw.
loadStopData(rawEvents, currentYear) ==
  Let(normalizeStopEvents(rawEvents, YearStart(currentYear)), LAMBDA events :
    [threw |-> Len(rawEvents) = 0,
     events |-> events,
     approxCount |-> Len(SelectSeq(events, LAMBDA e : e.approx))])

\* The loop over events: the intervals pushed to perCountryYear, in push order.
\* An event is dropped when unresolved or when its iso:startMs:endMs key was seen.
ShutdownIntervals(events, population) ==
  LET step(acc, event) ==
        LET iso == resolveIsoForEvent(event, population).iso3
            key == <<iso, event.startMs, event.endMs>>
            intervals == splitByYear([event EXCEPT !.iso3 = iso])
            withPop == SelectSeq(intervals, LAMBDA iv :
                          MapHas(population.populationByIsoYear, Key(iso, iv.year)))
        IN  IF iso = Unresolved \/ key \in acc.dedupe THEN acc
            ELSE [dedupe |-> acc.dedupe \cup {key}, pushed |-> acc.pushed \o withPop]
  IN  FoldLeft(step, [dedupe |-> {}, pushed |-> <<>>], events).pushed

\* The contribution of one bucket of perCountryYear: durationDays * weight.
ShutdownContribution(pushed, population, b) ==
  Let(mergeIntervals(SelectSeq(pushed, LAMBDA iv : Key(iv.iso3, iv.year) = b)),
      LAMBDA durationDays :
    Rat(durationDays.n * MapGet(population.populationByIsoYear, b),
        durationDays.d * MapGet(population.totalPopulationByYear, b[2])))

ShutdownOutput(buckets, years, diag, series) ==
  IF Len(buckets) = 0 \/ Len(years) = 0
  THEN Result("internet_shutdown_days", "failed", <<>>, <<>>, <<>>)
  ELSE IF Len(series) = 0
  \* series[0].year of the summary throws after writeJson(OUTPUT_SERIES_PATH, series)
  THEN Result("internet_shutdown_days", "failed",
              <<"public/data/internet_shutdown_days.json">>, series, diag)
  ELSE Result("internet_shutdown_days", "ok",
              <<"public/data/internet_shutdown_days.json",
                "scripts/logs/internet_shutdown_days.gaisum.json">>, series, diag)

ShutdownRun(events, popRows) ==
  Let(ShutdownLoadPopulation(popRows), LAMBDA population :
    LetSeq(ShutdownIntervals(events, population), LAMBDA pushed :
      \* the keys of perCountryYear, in insertion order
      LetSeq(Distinct([i \in 1..Len(pushed) |-> Key(pushed[i].iso3, pushed[i].year)]),
             LAMBDA buckets :
        LetSeq([i \in 1..Len(buckets) |-> ShutdownContribution(pushed, population, buckets[i])],
               LAMBDA contributions :
          LetSeq(SortAsc(Distinct([i \in 1..Len(buckets) |-> buckets[i][2]])), LAMBDA years :
            LetSeq([k \in 1..Len(years) |->
                      [year |-> years[k], kept |-> years[k] >= SHUTDOWN_START_YEAR,
                       value |-> SumRats([i \in 1..Len(buckets) |->
                                    IF buckets[i][2] = years[k] THEN contributions[i]
                                    ELSE RatInt(0)])]],
                   LAMBDA diag :
              LetSeq(SortByYear(KeptPoints(diag, 1)), LAMBDA series :
                ShutdownOutput(buckets, years, diag, series))))))))

\* run() in the calendar year currentYear.
ShutdownRunAt(rawEvents, popRows, currentYear) ==
  Let(loadStopData(rawEvents, currentYear), LAMBDA stop :
    IF stop.threw THEN Result("internet_shutdown_days", "failed", <<>>, <<>>, <<>>)
    ELSE ShutdownRun(stop.events, popRows))

(***************************************************************************)
(* scientific_coauthorship_share.  The two grouped queries return lists of *)
(* [year, count] groups, in response order over all pages.                 *)
(***************************************************************************)
COAUTH_START_YEAR == 1990
COAUTH_END_YEAR == 2050

\* fetchGrouped: the groups in range, merged per year, sorted by year.
fetchGrouped(groups) ==
  LET rows == SelectSeq(groups, LAMBDA g :
                 ~(g.year < COAUTH_START_YEAR \/ g.year > COAUTH_END_YEAR))
      years == Distinct([i \in 1..Len(rows) |-> rows[i].year])
      count(y) == SumInts([i \in 1..Len(rows) |-> IF rows[i].year = y THEN rows[i].count ELSE 0])
  IN  SortByYear([i \in 1..Len(years) |-> [year |-> years[i], count |-> count(years[i])]])

\* joinSeries: sharePrecise = round2(share), value = round1(sharePrecise).
joinSeries(total, international) ==
  LET has(list, y) == \E i \in 1..Len(list) : list[i].year = y
      get(list, y) == list[CHOOSE i \in 1..Len(list) : list[i].year = y].count
      years == SortAsc(SelectSeq([i \in 1..Len(total) |-> total[i].year],
                                 LAMBDA y : has(international, y)))
      usable == SelectSeq(years, LAMBDA y :
                   ~(get(total, y) <= 0) /\ ~(get(international, y) < 0))
  IN  [i \in 1..Len(usable) |->
         LET share == Rat(get(international, usable[i]) * 100, get(total, usable[i]))
             precise == RoundScaled(share, 2)
         IN  [year |-> usable[i], total |-> get(total, usable[i]),
              value |-> share, sharePrecise |-> precise,
              rounded |-> RoundScaled(Rat(precise, 100), 1)]]

\* capToComplete: the tail year is dropped, at most twice, while its total is
\* below 95% of the year before.
capToComplete(points) ==
  LET arr == SortByYear(points)
      incomplete(a) == Len(a) >= 2 /\ 100 * a[Len(a)].total < 95 * a[Len(a) - 1].total
      pop(a) == SubSeq(a, 1, Len(a) - 1)
  IN  IF ~incomplete(arr) THEN arr
      ELSE IF ~incomplete(pop(arr)) THEN pop(arr)
      ELSE pop(pop(arr))

CoauthFiles ==
  <<"public/data/scientific_coauthorship_share.json",
    "scripts/logs/scientific_coauthorship_share.gaisum.json">>

CoauthorshipRun(totalGroups, intlGroups) ==
  LetSeq(joinSeries(fetchGrouped(totalGroups), fetchGrouped(intlGroups)), LAMBDA joined :
    LetSeq(capToComplete(joined), LAMBDA cappedJoined :
      LetSeq([i \in 1..Len(joined) |->
                [year |-> joined[i].year, value |-> joined[i].value,
                 kept |-> \E j \in 1..Len(cappedJoined) :
                            cappedJoined[j].year = joined[i].year]],
             LAMBDA diag :
        LetSeq([i \in 1..Len(cappedJoined) |->
                  [year |-> cappedJoined[i].year, value |-> cappedJoined[i].value,
                   rounded |-> cappedJoined[i].rounded]],
               LAMBDA series :
          IF Len(joined) = 0 \/ Len(cappedJoined) = 0
          THEN Result("scientific_coauthorship_share", "failed", <<>>, series, diag)
          ELSE Result("scientific_coauthorship_share", "ok", CoauthFiles, series, diag)))))

(***************************************************************************)
(* Inputs.  A run reads its raw files; the files drawn here are built from *)
(* per-cell choices, a cell being absent (no row), empty (RawNull) or a    *)
(* number.  `order` is the order of the years in the files.                *)
(***************************************************************************)
Absent == [t |-> "absent", n |-> 0]

Opt(row) == IF row.value = Absent THEN <<>> ELSE <<row>>

InOrder(order, first, second) == IF order = "asc" THEN first \o second ELSE second \o first

Orders == {"asc", "desc"}

\* Country tables: metric rows (two countries and the WLD aggregate) and
\* population rows, over two years.
TableYearA == HOMICIDE_START_YEAR + 30
TableYearB == TableYearA + 1

TableConfigs ==
  [mUSA_A : {Absent, RawNull, Num(10)}, mFRA_A : {Absent, RawNull, Num(40)},
   mWLD_A : {Absent, Num(15)},
   pUSA_A : {Absent, Num(100)}, pFRA_A : {Absent, Num(25), Num(50)},
   mUSA_B : {Absent, Num(10)}, mFRA_B : {Absent, Num(40)},
   mWLD_B : {Absent, Num(15)},
   pUSA_B : {Absent, Num(100)}, pFRA_B : {Absent, Num(50)},
   order : Orders]

TableInput(c) ==
  [family |-> "table",
   rows |-> InOrder(c.order,
              Opt(Row("USA", TableYearA, c.mUSA_A)) \o Opt(Row("FRA", TableYearA, c.mFRA_A))
                \o Opt(Row("WLD", TableYearA, c.mWLD_A)),
              Opt(Row("USA", TableYearB, c.mUSA_B)) \o Opt(Row("FRA", TableYearB, c.mFRA_B))
                \o Opt(Row("WLD", TableYearB, c.mWLD_B))),
   popRows |-> InOrder(c.order,
              Opt(Row("USA", TableYearA, c.pUSA_A)) \o Opt(Row("FRA", TableYearA, c.pFRA_A)),
              Opt(Row("USA", TableYearB, c.pUSA_B)) \o Opt(Row("FRA", TableYearB, c.pFRA_B))),
   extra |-> <<>>]

\* The rows the WDI server holds for the metric and for the population, two
\* countries over two years, and what the request of each page returns.
PageKinds == {"ok", "notOk", "badPayload"}

MaxPages == 2

WdiConfigs ==
  [mUSA_B : {Absent, Num(10)}, mFRA_B : {Absent, Num(40)},
   metric : [1..MaxPages -> PageKinds], population : [1..MaxPages -> PageKinds],
   order : Orders]

WdiInput(c) ==
  [family |-> "wdi",
   rows |-> InOrder(c.order,
              <<Row("USA", TableYearA, Num(10)), Row("FRA", TableYearA, Num(40))>>,
              Opt(Row("USA", TableYearB, c.mUSA_B)) \o Opt(Row("FRA", TableYearB, c.mFRA_B))),
   popRows |-> InOrder(c.order,
              <<Row("USA", TableYearA, Num(100)), Row("FRA", TableYearA, Num(50))>>,
              <<Row("USA", TableYearB, Num(100)), Row("FRA", TableYearB, Num(50))>>),
   extra |-> [metric |-> c.metric, population |-> c.population]]

\* What the pages of the current run's two indicators return: every page is OK
\* for the inputs that are given as tables.
MetricKinds == IF input.family = "wdi" THEN input.extra.metric ELSE AllOk(input.rows)
PopulationKinds ==
  IF input.family = "wdi" THEN input.extra.population ELSE AllOk(input.popRows)

\* A country-year that has two rows in the metric file, each with its source
\* column.
SrcRow(iso, year, value, source) ==
  [iso |-> iso, year |-> year, value |-> value, source |-> source]

DupSources == {"WHO Mortality Database", "UNODC CTS"}

DupConfigs ==
  [v1 : {Num(10), Num(20)}, s1 : DupSources, v2 : {Num(10), Num(20)}, s2 : DupSources,
   mFRA : {Absent, Num(40)}, pFRA : {Absent, Num(50)}, order : Orders]

DupInput(c) ==
  [family |-> "table",
   rows |-> InOrder(c.order,
              <<SrcRow("USA", TableYearA, c.v1, c.s1)>> \o Opt(Row("FRA", TableYearA, c.mFRA)),
              <<SrcRow("USA", TableYearA, c.v2, c.s2)>>),
   popRows |-> <<Row("USA", TableYearA, Num(100))>> \o Opt(Row("FRA", TableYearA, c.pFRA)),
   extra |-> <<>>]

\* UCDP rows [year, type, value] and world population rows [year, value].
BattleRow(year, type, value) == [year |-> year, type |-> type, value |-> value]
YearCell(year, value) == [year |-> year, value |-> value]

BattleYearA == BATTLE_START_YEAR
BattleYearB == BATTLE_START_YEAR + 1
BattleYearC == BATTLE_START_YEAR + 2

BattleConfigs ==
  [d1_A : {Absent, Num(0), Num(3)}, d2_A : {Absent, Num(0), Num(3)},
   d1_B : {Absent, Num(0), Num(3)}, d2_B : {Absent, RawNull, Num(3)},
   p_A : {Absent, Num(200000), Num(700000)}, p_B : {Absent, Num(200000)},
   d1_C : {Absent, Num(3)}, p_C : {Absent, Num(200000)},
   order : Orders, allowPlaceholders : BOOLEAN]

BattleInput(c) ==
  [family |-> "battle",
   rows |-> InOrder(c.order,
              Opt(BattleRow(BattleYearA, "1", c.d1_A)) \o Opt(BattleRow(BattleYearA, "2", c.d2_A)),
              Opt(BattleRow(BattleYearB, "1", c.d1_B)) \o Opt(BattleRow(BattleYearB, "2", c.d2_B))
                \o Opt(BattleRow(BattleYearC, "1", c.d1_C))),
   popRows |-> InOrder(c.order, Opt(YearCell(BattleYearA, c.p_A)),
                                Opt(YearCell(BattleYearB, c.p_B))
                                  \o Opt(YearCell(BattleYearC, c.p_C))),
   extra |-> c.allowPlaceholders]

\* The world rows of the SIPRI and population files and the deflator rows.
MilexYearA == DEFLATOR_BASE_YEAR - 1

MilexConfigs ==
  [w_A : {Absent, Num(300)}, w_B : {Absent, Num(400), Num(433)},
   p_A : {Absent, Num(100)}, p_B : {Absent, Num(100)},
   x_A : {Absent, Num(90)}, x_B : {Absent, Num(100), Num(110)},
   order : Orders]

MilexInput(c) ==
  [family |-> "milex",
   rows |-> InOrder(c.order, Opt(YearCell(MilexYearA, c.w_A)),
                             Opt(YearCell(DEFLATOR_BASE_YEAR, c.w_B))),
   popRows |-> InOrder(c.order, Opt(YearCell(MilexYearA, c.p_A)),
                                Opt(YearCell(DEFLATOR_BASE_YEAR, c.p_B))),
   extra |-> InOrder(c.order, Opt(YearCell(MilexYearA, c.x_A)),
                              Opt(YearCell(DEFLATOR_BASE_YEAR, c.x_B)))]

\* Grouped counts [year, count] of the two OpenAlex queries.
Group(year, count) == [year |-> year, count |-> count]
\* count = -1: the response has no group for the year
OptGroup(year, count) == IF count = -1 THEN <<>> ELSE <<Group(year, count)>>

CoauthYearA == COAUTH_START_YEAR + 30

CoauthConfigs ==
  [t_A : {-1, 100, 22}, t_B : {-1, 100, 0}, t_C : {-1, 50, 96},
   i_A : {-1, 25, 1}, i_B : {-1, 25}, i_C : {-1, 13},
   order : Orders]

CoauthInput(c) ==
  [family |-> "coauthorship",
   rows |-> InOrder(c.order,
              OptGroup(CoauthYearA, c.t_A) \o OptGroup(CoauthYearA + 1, c.t_B),
              OptGroup(CoauthYearA + 2, c.t_C)),
   popRows |-> InOrder(c.order,
              OptGroup(CoauthYearA, c.i_A) \o OptGroup(CoauthYearA + 1, c.i_B),
              OptGroup(CoauthYearA + 2, c.i_C)),
   extra |-> <<>>]

\* STOP events as loadStopData returns them, and population rows with names.
MaxEvents == 2
MaxIntervals == 3
MaxPopRows == 2

SeqsUpTo(S, n) == UNION {[1..k -> S] : k \in 0..n}

\* The calendar years a run happens in.
ClockYears == {LastYear - 1, LastYear}

ShutdownEvents ==
  {RawEvent("United States", "USA", DateParts(2015, 1, 11), DateParts(2015, 1, 20), TRUE,
            NoTime, NoTime),
   RawEvent("Burma", "", DateParts(2016, 12, 30), DateParts(2017, 1, 2), TRUE, NoTime, NoTime),
   RawEvent("Myanmar (Burma)", "", DateParts(2016, 1, 2), DateParts(2016, 1, 3), TRUE,
            NoTime, NoTime),
   RawEvent("World", "", DateParts(2016, 1, 3), DateParts(2016, 1, 5), TRUE, NoTime, NoTime),
   RawEvent("United States", "usa", DateParts(2016, 1, 2), DateParts(2016, 1, 5), TRUE,
            TimeOfDay(TicksPerDay - 1), TimeOfDay(0)),
   \* still in progress: no end date
   RawEvent("Myanmar", "", DateParts(LastYear - 2, 12, 30), DateParts(LastYear - 2, 12, 30),
            FALSE, NoTime, NoTime),
   RawEvent("Burma", "", DateParts(LastYear - 2, 12, 31), DateParts(LastYear - 2, 12, 31),
            FALSE, NoTime, NoTime)}

ShutdownPopTables ==
  {[i \in 1..8 |-> PopRow(IF i <= 4 THEN "USA" ELSE "MMR", 2015 + ((i - 1) % 4),
                          Num(IF i <= 4 THEN 300 ELSE 50),
                          IF i <= 4 THEN "United States" ELSE "Myanmar")],
   <<PopRow("USA", 2015, Num(300), "United States")>>,
   <<PopRow("MMR", 2017, Num(50), "Myanmar (Burma)"),
     PopRow("MMR", 2016, Num(50), "Myanmar (Burma)")>>,
   \* one country, which is the whole population of its years
   <<PopRow("MMR", LastYear - 2, Num(50), "Myanmar"),
     PopRow("MMR", LastYear - 1, Num(50), "Myanmar")>>,
   \* a country-year with two rows
   <<PopRow("USA", 2016, Num(300), "United States"),
     PopRow("USA", 2016, Num(100), "United States"),
     PopRow("MMR", 2016, Num(50), "Myanmar")>>}

ShutdownInputs ==
  {[family |-> "shutdown", rows |-> ev, popRows |-> pop, extra |-> now] :
     ev \in SeqsUpTo(ShutdownEvents, MaxEvents), pop \in ShutdownPopTables,
     now \in ClockYears}

\* Intervals of one country-year, and events to split.
MergeInstants ==
  {YearStart(2016) + d * TicksPerDay : d \in {1, 5, 10, 15}} \cup {YearStart(2016) + 21}

SplitInstants ==
  {YearStart(2015) + 3, YearStart(2016) - 1, YearStart(2016), YearStart(2016) + 1,
   YearStart(2017), YearStart(2017) + 4, YearStart(2018)}

OrderedPairs(S) == {p \in S \X S : p[1] < p[2]}

MergeIntervalSet == {Interval("MMR", 2016, p[1], p[2]) : p \in OrderedPairs(MergeInstants)}

MergeInputs ==
  {[family |-> "merge", rows |-> ivs, popRows |-> <<>>, extra |-> <<>>] :
     ivs \in SeqsUpTo(MergeIntervalSet, MaxIntervals)}

SplitInputs ==
  {[family |-> "split", rows |-> <<Event("MMR", "Myanmar", p[1], p[2])>>, popRows |-> <<>>,
    extra |-> <<>>] : p \in OrderedPairs(SplitInstants)}

\* Raw events to normalize and split: dates around the end of February of a leap
\* year and around a year boundary, with and without times and end dates, run
\* before and after the last of them.
NormalizeDates ==
  {DateParts(2016, 2, 28), DateParts(2016, 3, 1), DateParts(LastYear - 1, 12, 25),
   DateParts(LastYear - 1, 12, 31), DateParts(LastYear, 1, 1), DateParts(LastYear, 1, 10)}

\* parseStopRows: endDate is startDate when the row has no end date.
NormalizeEvents ==
  {e \in {RawEvent("India", "IND", ds, de, ex, ts, te) :
            ds \in NormalizeDates \cup {NoDate}, de \in NormalizeDates \cup {NoDate},
            ex \in BOOLEAN, ts \in {NoTime, TimeOfDay(1)}, te \in {NoTime, TimeOfDay(1)}} :
     e.hasExplicitEndDate \/ e.endDate = e.startDate}

NormalizeInputs ==
  {[family |-> "raw", rows |-> <<e>>, popRows |-> <<>>, extra |-> now] :
     e \in NormalizeEvents, now \in {LastYear, LastYear + 1}}

\* Names to resolve, ISO hints, and population indexes built from country rows.
ResolverNames ==
  {"Burma", "Myanmar (Burma)", "MMR", "World", "High income", "Myanmar", " burma ",
   "mmr", "WLD", "France", "Congo (Kinshasa)"}

ResolverHints == {"", "FRA", "WLD"}

ResolverPopRows ==
  {PopRow("MMR", 2016, Num(50), "Myanmar"), PopRow("USA", 2016, Num(300), "United States"),
   PopRow("FRA", 2016, Num(60), "France"), PopRow("COD", 2016, Num(80), "Congo, Dem. Rep."),
   PopRow("MMR", 2016, Num(50), "Myanmar (Burma)")}

\* The keys of the alias table, each given as the country name of an event with
\* no ISO hint.
AliasKeys == {STOP_ALIAS_TO_ISO[i][1] : i \in 1..Len(STOP_ALIAS_TO_ISO)}

AliasKeyInputs ==
  {[family |-> "resolver", rows |-> <<Event("", key, YearStart(2016), YearStart(2016) + 2)>>,
    popRows |-> pop, extra |-> <<>>] :
     key \in AliasKeys,
     pop \in {<<>>, <<PopRow("FRA", 2016, Num(60), "France")>>}}

ResolverInputs ==
  {[family |-> "resolver", rows |-> <<Event(hint, name, YearStart(2016), YearStart(2016) + 2)>>,
    popRows |-> pop, extra |-> <<>>] :
     hint \in ResolverHints, name \in ResolverNames,
     pop \in SeqsUpTo(ResolverPopRows, MaxPopRows)}
    \cup AliasKeyInputs

(***************************************************************************)
(* The pipelines as a state machine: a run reads its input and ends with a *)
(* result.  pc is "ready" before the run and "done" after it.              *)
(***************************************************************************)
NoResult == Result("none", "none", <<>>, <<>>, <<>>)

Init ==
  /\ input \in {TableInput(c) : c \in TableConfigs}
               \cup {DupInput(c) : c \in DupConfigs}
               \cup {WdiInput(c) : c \in WdiConfigs}
               \cup {BattleInput(c) : c \in BattleConfigs}
               \cup {MilexInput(c) : c \in MilexConfigs}
               \cup {CoauthInput(c) : c \in CoauthConfigs}
               \cup ShutdownInputs
  /\ pc = "ready"
  /\ out = NoResult

RunU5 ==
  /\ pc = "ready"
  /\ input.family \in {"table", "wdi"}
  /\ out' = U5RunFetched(fetchWdiAll(input.rows, MetricKinds),
                         fetchWdiAll(input.popRows, PopulationKinds))
  /\ pc' = "done"
  /\ UNCHANGED input

RunExtremePoverty ==
  /\ pc = "ready"
  /\ input.family \in {"table", "wdi"}
  /\ out' = EpRunFetched(fetchWdiAll(input.rows, MetricKinds),
                         fetchWdiAll(input.popRows, PopulationKinds))
  /\ pc' = "done"
  /\ UNCHANGED input

RunHomicide ==
  /\ pc = "ready"
  /\ input.family = "table"
  /\ out' = HomicideRun(input.rows, input.popRows)
  /\ pc' = "done"
  /\ UNCHANGED input

RunDeathRegistration ==
  /\ pc = "ready"
  /\ input.family = "table"
  /\ out' = DeathRegRun(input.rows, input.popRows)
  /\ pc' = "done"
  /\ UNCHANGED input

RunFirearmTs ==
  /\ pc = "ready"
  /\ input.family = "table"
  /\ out' = FirearmTsRun(input.rows, input.popRows)
  /\ pc' = "done"
  /\ UNCHANGED input

RunFirearmJs ==
  /\ pc = "ready"
  /\ input.family = "table"
  /\ out' = FirearmJsRun(input.rows, input.popRows)
  /\ pc' = "done"
  /\ UNCHANGED input

RunBattleDeaths ==
  /\ pc = "ready"
  /\ input.family = "battle"
  /\ out' = BattleRun(input.rows, input.popRows, input.extra)
  /\ pc' = "done"
  /\ UNCHANGED input

RunMilex ==
  /\ pc = "ready"
  /\ input.family = "milex"
  /\ out' = MilexRun(input.rows, input.popRows, input.extra)
  /\ pc' = "done"
  /\ UNCHANGED input

RunShutdown ==
  /\ pc = "ready"
  /\ input.family = "shutdown"
  /\ out' = ShutdownRunAt(input.rows, input.popRows, input.extra)
  /\ pc' = "done"
  /\ UNCHANGED input

RunCoauthorship ==
  /\ pc = "ready"
  /\ input.family = "coauthorship"
  /\ out' = CoauthorshipRun(input.rows, input.popRows)
  /\ pc' = "done"
  /\ UNCHANGED input

Next ==
  \/ RunU5
  \/ RunExtremePoverty
  \/ RunHomicide
  \/ RunDeathRegistration
  \/ RunFirearmTs
  \/ RunFirearmJs
  \/ RunBattleDeaths
  \/ RunMilex
  \/ RunShutdown
  \/ RunCoauthorship

Spec == Init /\ [][Next]_vars

\* mergeIntervals and splitByYear applied to drawn intervals and events.
(***************************************************************************)
(* scientific_coauthorship_share: fetchJson.  One invocation of fetchJson   *)
(* runs curl once.  A response is what curl gives: whether execFile         *)
(* resolved ("ok") or rejected ("error", the error carrying curl's stdout), *)
(* the status of the last line of stdout (NoStatus when stdout is empty or  *)
(* has no status line) and whether the body parses as JSON.                 *)
(***************************************************************************)
MAX_ATTEMPTS == 5

\* No HTTP status: stdout is empty or its last line is no number (NaN), or curl
\* wrote 000.  Every comparison of fetchJson treats the three alike.
NoStatus == 0

Response(curl, status, parses) == [curl |-> curl, status |-> status, parses |-> parses]

\* Whether the body parses matters to fetchJson for a 2xx status alone.
FetchResponses ==
  {Response(c, 200, p) : c \in {"ok", "error"}, p \in BOOLEAN}
    \cup {Response(c, st, FALSE) : c \in {"ok", "error"}, st \in {NoStatus, 404, 429, 500}}

Is2xx(status) == status # NoStatus /\ status >= 200 /\ status < 300

\* fetchJson with the attempts compared by > in place of >= and <.
fetchJsonStepOneMore(response, attempt, maxAttempts) ==
  IF Is2xx(response.status) /\ response.parses THEN "return"
  ELSE IF attempt > maxAttempts THEN "throw" ELSE "retry"

\* The body of fetchJson for one response: "return" the parsed body, "retry"
\* (fetchJson(url, attempt + 1, maxAttempts) after a sleep) or "throw".
fetchJsonStep(response, attempt, maxAttempts) ==
  LET generic == IF attempt >= maxAttempts THEN "throw" ELSE "retry"
  IN  IF response.curl = "ok"
      THEN \* the try block: every throw of it lands in the catch with an error
           \* that has no stdout property
           IF Is2xx(response.status) /\ response.parses THEN "return" ELSE generic
      ELSE \* the catch block for an error of execFile
           IF response.status = NoStatus THEN generic
           ELSE IF Is2xx(response.status) /\ response.parses THEN "return"
           ELSE IF (response.status = 429 \/ response.status >= 500) /\ attempt < maxAttempts
           THEN "retry"
           ELSE generic

\* The sleep before the next attempt: 500 * 2 ** (attempt - 1), in both retry paths.
backoffMs(attempt) == 500 * 2^(attempt - 1)

FetchStart ==
  [op |-> "fetch", attempt |-> 1, responses |-> <<>>, delays |-> <<>>, status |-> "pending"]

InitFetch ==
  /\ input = [family |-> "fetch", rows |-> <<>>, popRows |-> <<>>, extra |-> <<>>]
  /\ pc = "ready"
  /\ out = FetchStart

\* One invocation of fetchJson, with the response curl gives to it.
FetchAttempt ==
  /\ pc = "ready"
  /\ input.family = "fetch"
  /\ \E response \in FetchResponses :
       LET step == fetchJsonStep(response, out.attempt, MAX_ATTEMPTS)
       IN  /\ out' = [op |-> "fetch",
                      attempt |-> IF step = "retry" THEN out.attempt + 1 ELSE out.attempt,
                      responses |-> Append(out.responses, response),
                      delays |-> IF step = "retry"
                                 THEN Append(out.delays, backoffMs(out.attempt))
                                 ELSE out.delays,
                      status |-> IF step = "retry" THEN "pending"
                                 ELSE IF step = "return" THEN "returned" ELSE "threw"]
           /\ pc' = IF step = "retry" THEN "ready" ELSE "done"
  /\ UNCHANGED input

NextFetch == FetchAttempt

SpecFetch == InitFetch /\ [][NextFetch]_vars

\* An invocation of fetchJson that has begun runs to its end: the promise of curl
\* settles (--max-time 30) and so does the sleep.
SpecFetchFair == SpecFetch /\ WF_vars(NextFetch)

InitIntervals ==
  /\ input \in MergeInputs \cup SplitInputs \cup NormalizeInputs
  /\ pc = "ready"
  /\ out = NoResult

Merge ==
  /\ pc = "ready"
  /\ input.family = "merge"
  /\ out' = [op |-> "merge", ticks |-> mergeTicks(input.rows),
             days |-> mergeIntervals(input.rows)]
  /\ pc' = "done"
  /\ UNCHANGED input

Split ==
  /\ pc = "ready"
  /\ input.family = "split"
  /\ out' = [op |-> "split", intervals |-> splitByYear(input.rows[1])]
  /\ pc' = "done"
  /\ UNCHANGED input

\* loadStopData's normalization of the raw events, then run()'s splitByYear of
\* each normalized event.
Normalize ==
  /\ pc = "ready"
  /\ input.family = "raw"
  /\ out' = Let(loadStopData(input.rows, input.extra), LAMBDA stop :
              [op |-> "normalize", events |-> stop.events,
               approxCount |-> stop.approxCount,
               intervals |-> FoldLeft(LAMBDA acc, event : acc \o splitByYear(event),
                                      <<>>, stop.events)])
  /\ pc' = "done"
  /\ UNCHANGED input

NextIntervals ==
  \/ Merge
  \/ Split
  \/ Normalize

SpecIntervals == InitIntervals /\ [][NextIntervals]_vars

\* resolveIsoForEvent applied to a drawn name against a drawn population index.
InitResolver ==
  /\ input \in ResolverInputs
  /\ pc = "ready"
  /\ out = NoResult

Resolve ==
  /\ pc = "ready"
  /\ input.family = "resolver"
  /\ out' = resolveIsoForEvent(input.rows[1], ShutdownLoadPopulation(input.popRows))
  /\ pc' = "done"
  /\ UNCHANGED input

NextResolver == Resolve

SpecResolver == InitResolver /\ [][NextResolver]_vars

(***************************************************************************)
(* CSV parsers.  A text is a sequence of characters, a character a string  *)
(* of length one (BOM stands for U+FEFF).  Three of the parsers are        *)
(* modelled: the one of internet_shutdown_days, the one of                 *)
(* death_registration_completeness and the one of the TypeScript           *)
(* firearm_stock_per_100.  A parser returns the header cells and, for each *)
(* data line, the cells in header order (cells[idx] ?? "").                *)
(***************************************************************************)
QUOTE == "\""
COMMA == ","
LF == "\n"
CR == "\r"
BOM == "BOM"

\* The characters String.prototype.trim removes
IsSpace(c) == c \in {" ", LF, CR, BOM}

TrimEndChars(s) ==
  LET idx == {i \in 1..Len(s) : ~IsSpace(s[i])}
  IN  IF idx = {} THEN <<>> ELSE SubSeq(s, 1, CHOOSE i \in idx : \A j \in idx : j <= i)

TrimChars(s) ==
  LET idx == {i \in 1..Len(s) : ~IsSpace(s[i])}
  IN  IF idx = {} THEN <<>>
      ELSE SubSeq(s, CHOOSE i \in idx : \A j \in idx : i <= j,
                     CHOOSE i \in idx : \A j \in idx : j <= i)

Indices(s) == [i \in 1..Len(s) |-> i]

CharAt(s, i) == IF i >= 1 /\ i <= Len(s) THEN s[i] ELSE "undefined"

\* text.replace(/\r\n/g, "\n"), and .replace(/\r/g, "\n") as well when loneCr
NormalizeNewlines(text, loneCr) ==
  FoldLeft(LAMBDA acc, i :
             IF text[i] = CR /\ CharAt(text, i + 1) = LF THEN acc
             ELSE IF text[i] = CR /\ loneCr THEN Append(acc, LF)
             ELSE Append(acc, text[i]),
           <<>>, Indices(text))

\* s.split(sep) for a one-character separator
SplitOn(s, sep) ==
  Let(FoldLeft(LAMBDA acc, c :
                 IF c = sep THEN [parts |-> Append(acc.parts, acc.current), current |-> <<>>]
                 ELSE [acc EXCEPT !.current = Append(acc.current, c)],
               [parts |-> <<>>, current |-> <<>>], s),
      LAMBDA last : Append(last.parts, last.current))

\* filtered[0] without a leading byte-order mark
StripBom(lines) ==
  IF Len(lines) > 0 /\ CharAt(lines[1], 1) = BOM
  THEN <<SubSeq(lines[1], 2, Len(lines[1]))>> \o SubSeq(lines, 2, Len(lines))
  ELSE lines

\* headers.forEach((header, idx) => row[header] = cells[idx] ?? "")
AlignCells(headers, cells) ==
  [idx \in 1..Len(headers) |-> IF idx <= Len(cells) THEN cells[idx] ELSE <<>>]

CsvResult(headers, lines, parseLine(_)) ==
  [op |-> "csv", headers |-> headers,
   rows |-> [i \in 1..(Len(lines) - 1) |-> AlignCells(headers, parseLine(lines[i + 1]))]]

NoCsv == [op |-> "csv", headers |-> <<>>, rows |-> <<>>]

\* death_registration_completeness: parseCsvLine
DeathRegParseCsvLine(line) ==
  Let(FoldLeft(LAMBDA acc, i :
                 IF acc.skip THEN [acc EXCEPT !.skip = FALSE]
                 ELSE IF acc.inQuotes
                 THEN IF line[i] = QUOTE
                      THEN IF CharAt(line, i + 1) = QUOTE
                           THEN [acc EXCEPT !.current = Append(acc.current, QUOTE),
                                            !.skip = TRUE]
                           ELSE [acc EXCEPT !.inQuotes = FALSE]
                      ELSE [acc EXCEPT !.current = Append(acc.current, line[i])]
                 ELSE IF line[i] = QUOTE THEN [acc EXCEPT !.inQuotes = TRUE]
                 ELSE IF line[i] = COMMA
                 THEN [acc EXCEPT !.cells = Append(acc.cells, TrimChars(acc.current)),
                                  !.current = <<>>]
                 ELSE [acc EXCEPT !.current = Append(acc.current, line[i])],
               [cells |-> <<>>, current |-> <<>>, inQuotes |-> FALSE, skip |-> FALSE],
               Indices(line)),
      LAMBDA last : Append(last.cells, TrimChars(last.current)))

\* death_registration_completeness: parseCsv
DeathRegParseCsv(text) ==
  LetSeq(StripBom(SelectSeq([i \in 1..Len(SplitOn(NormalizeNewlines(text, FALSE), LF)) |->
                               TrimEndChars(SplitOn(NormalizeNewlines(text, FALSE), LF)[i])],
                            LAMBDA line : Len(line) > 0)),
         LAMBDA lines :
    IF Len(lines) = 0 THEN NoCsv
    ELSE LetSeq([i \in 1..Len(DeathRegParseCsvLine(lines[1])) |->
                   TrimChars(DeathRegParseCsvLine(lines[1])[i])],
                LAMBDA headers : CsvResult(headers, lines, DeathRegParseCsvLine)))

\* internet_shutdown_days: parseCsvLine
ShutdownParseCsvLine(line) ==
  Let(FoldLeft(LAMBDA acc, i :
                 IF acc.skip THEN [acc EXCEPT !.skip = FALSE]
                 ELSE IF line[i] = QUOTE
                 THEN IF acc.inQuotes /\ CharAt(line, i + 1) = QUOTE
                      THEN [acc EXCEPT !.current = Append(acc.current, QUOTE), !.skip = TRUE]
                      ELSE [acc EXCEPT !.inQuotes = ~acc.inQuotes]
                 ELSE IF line[i] = COMMA /\ ~acc.inQuotes
                 THEN [acc EXCEPT !.cells = Append(acc.cells, TrimChars(acc.current)),
                                  !.current = <<>>]
                 ELSE [acc EXCEPT !.current = Append(acc.current, line[i])],
               [cells |-> <<>>, current |-> <<>>, inQuotes |-> FALSE, skip |-> FALSE],
               Indices(line)),
      LAMBDA last : Append(last.cells, TrimChars(last.current)))

\* internet_shutdown_days: the first loop of parseCsv, which cuts the text into
\* lines at the newlines outside quotes.  The quote characters it reads are not
\* copied into the line (a doubled quote inside quotes gives one quote).
ShutdownLines(normalized) ==
  Let(FoldLeft(LAMBDA acc, i :
                 IF acc.skip THEN [acc EXCEPT !.skip = FALSE]
                 ELSE IF normalized[i] = QUOTE
                 THEN IF acc.inQuotes /\ CharAt(normalized, i + 1) = QUOTE
                      THEN [acc EXCEPT !.current = Append(acc.current, QUOTE), !.skip = TRUE]
                      ELSE [acc EXCEPT !.inQuotes = ~acc.inQuotes]
                 ELSE IF normalized[i] = LF /\ ~acc.inQuotes
                 THEN [acc EXCEPT !.lines = Append(acc.lines, acc.current), !.current = <<>>]
                 ELSE [acc EXCEPT !.current = Append(acc.current, normalized[i])],
               [lines |-> <<>>, current |-> <<>>, inQuotes |-> FALSE, skip |-> FALSE],
               Indices(normalized)),
      LAMBDA last : IF Len(last.current) > 0 THEN Append(last.lines, last.current)
                    ELSE last.lines)

\* internet_shutdown_days: parseCsv
ShutdownParseCsv(text) ==
  LetSeq(ShutdownLines(NormalizeNewlines(text, TRUE)), LAMBDA raw :
    LetSeq(StripBom(SelectSeq([i \in 1..Len(raw) |-> TrimEndChars(raw[i])],
                              LAMBDA line : Len(line) > 0)),
           LAMBDA filtered :
      IF Len(filtered) = 0 THEN NoCsv
      ELSE LetSeq([i \in 1..Len(ShutdownParseCsvLine(filtered[1])) |->
                     TrimChars(ShutdownParseCsvLine(filtered[1])[i])],
                  LAMBDA headers : CsvResult(headers, filtered, ShutdownParseCsvLine))))

\* firearm_stock_per_100 (TypeScript): cell.trim().replace(/^"|"$/g, '')
FirearmCell(cell) ==
  LET t == TrimChars(cell)
      a == IF CharAt(t, 1) = QUOTE THEN SubSeq(t, 2, Len(t)) ELSE t
  IN  IF CharAt(a, Len(a)) = QUOTE THEN SubSeq(a, 1, Len(a) - 1) ELSE a

FirearmParseCsvLine(line) ==
  LET cells == SplitOn(line, COMMA) IN [i \in 1..Len(cells) |-> FirearmCell(cells[i])]

\* firearm_stock_per_100 (TypeScript): parseCsv; split(/\r?\n/) and the filter on
\* line.trim().length > 0.  A cell that is missing is taken as '' before the trim.
FirearmParseCsv(text) ==
  LetSeq(SelectSeq(SplitOn(NormalizeNewlines(text, FALSE), LF),
                   LAMBDA line : Len(TrimChars(line)) > 0),
         LAMBDA lines :
    IF Len(lines) = 0 THEN NoCsv
    ELSE CsvResult(FirearmParseCsvLine(lines[1]), lines, FirearmParseCsvLine))

\* CSV texts: the header line a,b and one data line of one or two cells, each
\* cell written bare or in quotes with its quotes doubled, as a CSV writer does.
\* A value that holds a comma or a quote is always written in quotes.
CsvValues == {<<"x">>, <<"x", COMMA, "y">>, <<"x", QUOTE, "y">>, <<>>, <<"x", " ", "y">>}

NeedsQuotes(value) == \E i \in 1..Len(value) : value[i] \in {COMMA, QUOTE}

EncodeCell(value, quoted) ==
  IF quoted
  THEN <<QUOTE>> \o FoldLeft(LAMBDA acc, c : IF c = QUOTE THEN acc \o <<QUOTE, QUOTE>>
                                              ELSE Append(acc, c), <<>>, value)
       \o <<QUOTE>>
  ELSE value

CsvCells == {[value |-> v, quoted |-> q] : v \in CsvValues, q \in BOOLEAN}
              \ {c \in [value : CsvValues, quoted : {FALSE}] : NeedsQuotes(c.value)}

EncodeLine(cells) ==
  FoldLeft(LAMBDA acc, i : acc \o (IF i > 1 THEN <<COMMA>> ELSE <<>>)
                               \o EncodeCell(cells[i].value, cells[i].quoted),
           <<>>, Indices(cells))

CsvInputs ==
  {[family |-> "csv",
    rows |-> (IF bom THEN <<BOM>> ELSE <<>>) \o <<"a", COMMA, "b">> \o eol
               \o EncodeLine(cells) \o eol,
    popRows |-> <<>>,
    extra |-> [i \in 1..Len(cells) |-> cells[i].value]] :
     bom \in BOOLEAN, eol \in {<<LF>>, <<CR, LF>>},
     cells \in {cs \in UNION {[1..k -> CsvCells] : k \in 1..2} :
                  Len(cs) = 2 \/ Len(cs[1].value) > 0}}

InitCsv ==
  /\ input \in CsvInputs
  /\ pc = "ready"
  /\ out = NoCsv

ParseShutdownCsv ==
  /\ pc = "ready"
  /\ input.family = "csv"
  /\ out' = [ShutdownParseCsv(input.rows) EXCEPT !.op = "shutdown"]
  /\ pc' = "done"
  /\ UNCHANGED input

ParseDeathRegCsv ==
  /\ pc = "ready"
  /\ input.family = "csv"
  /\ out' = [DeathRegParseCsv(input.rows) EXCEPT !.op = "death_registration"]
  /\ pc' = "done"
  /\ UNCHANGED input

ParseFirearmCsv ==
  /\ pc = "ready"
  /\ input.family = "csv"
  /\ out' = [FirearmParseCsv(input.rows) EXCEPT !.op = "firearm"]
  /\ pc' = "done"
  /\ UNCHANGED input

NextCsv ==
  \/ ParseShutdownCsv
  \/ ParseDeathRegCsv
  \/ ParseFirearmCsv

SpecCsv == InitCsv /\ [][NextCsv]_vars

TypeOK == pc \in {"ready", "done"}

(***************************************************************************)
(* Reference quantities, computed from the raw input of a country-table    *)
(* run: what the specification says of a year, independently of any        *)
(* pipeline's code.                                                        *)
(***************************************************************************)
RECURSIVE SumFn(_)
SumFn(f) ==
  IF DOMAIN f = {} THEN 0
  ELSE LET x == CHOOSE x \in DOMAIN f : TRUE
       IN  f[x] + SumFn([y \in DOMAIN f \ {x} |-> f[y]])

\* The cell of (iso, year) in a raw table, Absent when the table has no such row.
RawCell(rows, iso, year) ==
  LET idx == {i \in 1..Len(rows) : rows[i].iso = iso /\ rows[i].year = year}
  IN  IF idx = {} THEN Absent ELSE rows[CHOOSE i \in idx : \A j \in idx : j <= i].value

RefCountries(in) ==
  {c \in SeqToSet([i \in 1..Len(in.rows) |-> in.rows[i].iso])
         \cup SeqToSet([i \in 1..Len(in.popRows) |-> in.popRows[i].iso]) : isCountryIso(c)}

\* countries with a population that year / with a population and a non-missing value
RefWithPop(in, year) ==
  {c \in RefCountries(in) : RawCell(in.popRows, c, year).t = "num"
                            /\ RawCell(in.popRows, c, year).n > 0}
RefWithBoth(in, year) ==
  {c \in RefWithPop(in, year) : RawCell(in.rows, c, year).t = "num"}

RefPop(in, S, year) == SumFn([c \in S |-> RawCell(in.popRows, c, year).n])

\* sum of value * population over sum of population, over RefWithBoth
RefWeightedMean(in, year) ==
  Rat(SumFn([c \in RefWithBoth(in, year) |->
               RawCell(in.rows, c, year).n * RawCell(in.popRows, c, year).n]),
      RefPop(in, RefWithBoth(in, year), year))

\* covered weight over total weight
RefCoverage(in, year) ==
  Rat(RefPop(in, RefWithBoth(in, year), year), RefPop(in, RefWithPop(in, year), year))

Done(name) == pc = "done" /\ out.pipeline = name

WeightedPipelines ==
  {"u5_mortality", "extreme_poverty", "homicide_rate", "death_registration_completeness"}

\* The (year, value) pairs a run publishes as population-weighted means: every
\* point of the series, but for homicide_rate the points taken from the WLD row.
PublishedWeighted ==
  IF out.pipeline = "homicide_rate" /\ out.status = "ok"
  THEN {[year |-> out.diag[i].year, value |-> out.diag[i].bottomUp] :
          i \in {j \in 1..Len(out.diag) : out.diag[j].choice # "wld"}}
  ELSE {[year |-> out.series[i].year, value |-> out.series[i].value] :
          i \in 1..Len(out.series)}

(***************************************************************************)
(* Claims                                                                  *)
(***************************************************************************)

\* C1: in every population-weighted pipeline the value published for a year is
\* the sum of value * population over the sum of population, taken over exactly
\* the countries with a non-missing value and a population that year; a null or
\* missing value contributes to neither sum.
C1_WeightedMeanOverNonMissing ==
  (pc = "done" /\ out.pipeline \in WeightedPipelines /\ out.status = "ok") =>
    \A p \in PublishedWeighted :
      /\ RefWithBoth(input, p.year) # {}
      /\ RatEq(p.value, RefWeightedMean(input, p.year))

\* C1, the example of the specification run through u5_mortality: populations
\* {USA:100, FRA:50}, values {USA:10, FRA:null}; the null is counted as a value 0
\* and 6.67 is published for the year, not 10.
C1_NullCountedAsZero ==
  /\ Done("u5_mortality")
  /\ RawCell(input.rows, "USA", TableYearA) = Num(10)
  /\ RawCell(input.rows, "FRA", TableYearA) = RawNull
  /\ RawCell(input.popRows, "USA", TableYearA) = Num(100)
  /\ RawCell(input.popRows, "FRA", TableYearA) = Num(50)
  /\ \E i \in 1..Len(out.series) :
       out.series[i].year = TableYearA /\ out.series[i].rounded = 667

\* C2: for every pipeline that declares a minimum coverage (u5_mortality 0.7,
\* extreme_poverty 0.8, firearm_stock_per_100 0.3) every year of the published
\* series has a coverage ratio (covered population over total population) of at
\* least the minimum; a year below the minimum is absent from the series.
GatedPipelines ==
  {"u5_mortality", "extreme_poverty", "firearm_stock_per_100", "firearm_stock_per_100.js"}

MinCoverage(pipeline) ==
  IF pipeline = "u5_mortality" THEN U5MinCoverage
  ELSE IF pipeline = "extreme_poverty" THEN COVERAGE_MIN
  ELSE FirearmMinCoverage

C2_PublishedYearsMeetMinimum ==
  (pc = "done" /\ out.pipeline \in GatedPipelines /\ out.status = "ok") =>
    \A i \in 1..Len(out.series) :
      /\ RefWithPop(input, out.series[i].year) # {}
      /\ RatLe(MinCoverage(out.pipeline), RefCoverage(input, out.series[i].year))

\* C2: u5_mortality publishes a year in which the countries with a value hold
\* less than 0.7 of the population (USA, population 100, has a null value that
\* the pipeline reads as a value 0).
C2_U5PublishesLowCoverageYear ==
  /\ Done("u5_mortality")
  /\ out.status = "ok"
  /\ RawCell(input.rows, "USA", TableYearA) = RawNull
  /\ RefWithPop(input, TableYearA) # {}
  /\ RatLt(RefCoverage(input, TableYearA), U5MinCoverage)
  /\ \E i \in 1..Len(out.series) : out.series[i].year = TableYearA

\* C3: in every pipeline that gates on coverage, the coverage computed for a year
\* is the population of the countries with a metric value that year over the
\* population of all countries with a population that year.
CoverageGatingPipelines == GatedPipelines \cup {"homicide_rate"}

C3_CoverageIsCoveredOverTotalWeight ==
  (pc = "done" /\ out.pipeline \in CoverageGatingPipelines) =>
    \A i \in 1..Len(out.diag) :
      (/\ RefWithPop(input, out.diag[i].year) # {}
       /\ IF out.pipeline = "homicide_rate" THEN out.diag[i].computed ELSE TRUE)
      => RatEq(out.diag[i].cov, RefCoverage(input, out.diag[i].year))

\* C3: no cell is null; USA (population 100) has a value, FRA (population 25) has
\* none: u5_mortality computes 1/2 (countries) where covered over total
\* population is 100/125.
C3_U5CountsCountries ==
  /\ Done("u5_mortality")
  /\ RawCell(input.rows, "USA", TableYearA) = Num(10)
  /\ RawCell(input.rows, "FRA", TableYearA) = Absent
  /\ RawCell(input.popRows, "USA", TableYearA) = Num(100)
  /\ RawCell(input.popRows, "FRA", TableYearA) = Num(25)
  /\ RatEq(RefCoverage(input, TableYearA), Rat(4, 5))
  /\ \E i \in 1..Len(out.diag) :
       /\ out.diag[i].year = TableYearA
       /\ RatEq(out.diag[i].cov, Rat(1, 2))
       /\ ~out.diag[i].kept

StrictlyAscending(years) == \A i \in 1..(Len(years) - 1) : years[i] < years[i + 1]

YearRowFamilies == {"table", "battle", "milex", "coauthorship"}

\* C4: the global series a pipeline writes has strictly ascending years, whatever
\* the input; and the validator accepts the years of a default series exactly
\* when they are strictly ascending (here: the years of the written series and
\* the years of the raw rows, which come in any order and repeat).
C4_WrittenSeriesStrictlyAscending ==
  /\ (pc = "done" /\ Len(out.written) > 0) =>
       /\ StrictlyAscending(Years(out.series))
       /\ validateSeriesYears(Years(out.series))
  /\ input.family \in YearRowFamilies =>
       (validateSeriesYears(Years(input.rows)) <=> StrictlyAscending(Years(input.rows)))

\* C4: a run over files whose years come in descending order writes a series of
\* two points.
C4_DescendingInputTwoPoints ==
  /\ Done("u5_mortality")
  /\ out.status = "ok"
  /\ Len(out.series) = 2
  /\ input.popRows[1].year > input.popRows[Len(input.popRows)].year
  /\ ~validateSeriesYears(Years(input.popRows))

\* The number of ticks of the year that some interval of the list covers.
UnionTicks(intervals) ==
  Cardinality({t \in YearStart(SHUTDOWN_START_YEAR)..YearStart(SHUTDOWN_START_YEAR + 1) :
                 \E i \in 1..Len(intervals) :
                   intervals[i].startMs <= t /\ t < intervals[i].endMs})

Permutations1(n) == {p \in [1..n -> 1..n] : \A i, j \in 1..n : p[i] = p[j] => i = j}

\* C5: mergeIntervals returns the length in days of the union of the intervals of
\* a country-year: no more than the sum of the durations, no more than the span
\* from the earliest start to the latest end, and the same for every order of the
\* list.
C5_MergeIsUnionLength ==
  (pc = "done" /\ input.family = "merge") =>
    LET ivs == input.rows
        n == Len(ivs)
    IN  /\ out.ticks = UnionTicks(ivs)
        /\ RatEq(out.days, Rat(UnionTicks(ivs), TicksPerDay))
        /\ out.ticks <= SumDurations(ivs)
        /\ \A i, j \in 1..n :
             (\A k \in 1..n : ivs[i].startMs <= ivs[k].startMs /\ ivs[k].endMs <= ivs[j].endMs)
               => out.ticks <= ivs[j].endMs - ivs[i].startMs
        /\ \A p \in Permutations1(n) : mergeTicks([i \in 1..n |-> ivs[p[i]]]) = out.ticks

\* C5: day 1-10 and day 5-15 of the year merge to 14 days.
C5_OverlapCountedOnce ==
  /\ pc = "done"
  /\ input.family = "merge"
  /\ input.rows =
       <<Interval("MMR", SHUTDOWN_START_YEAR,
                  YearStart(SHUTDOWN_START_YEAR) + 1 * TicksPerDay,
                  YearStart(SHUTDOWN_START_YEAR) + 10 * TicksPerDay),
         Interval("MMR", SHUTDOWN_START_YEAR,
                  YearStart(SHUTDOWN_START_YEAR) + 5 * TicksPerDay,
                  YearStart(SHUTDOWN_START_YEAR) + 15 * TicksPerDay)>>
  /\ RatEq(out.days, RatInt(14))

\* C6: splitByYear returns exactly one non-empty sub-interval for each calendar
\* year the event touches and none for another year; each lies within its year,
\* the sub-intervals are pairwise disjoint and their durations add up to
\* endMs - startMs.
C6_SplitByYearPartitions ==
  (pc = "done" /\ input.family = "split") =>
    LET ev == input.rows[1]
        ivs == out.intervals
        touched == {y \in EpochYear..LastYear :
                      ev.startMs < YearStart(y + 1) /\ YearStart(y) < ev.endMs}
    IN  /\ \A y \in touched : Cardinality({i \in 1..Len(ivs) : ivs[i].year = y}) = 1
        /\ \A i \in 1..Len(ivs) :
             /\ ivs[i].year \in touched
             /\ ivs[i].startMs < ivs[i].endMs
             /\ YearStart(ivs[i].year) <= ivs[i].startMs
             /\ ivs[i].endMs <= YearStart(ivs[i].year + 1)
        /\ \A i, j \in 1..Len(ivs) :
             i # j => (ivs[i].endMs <= ivs[j].startMs \/ ivs[j].endMs <= ivs[i].startMs)
        /\ SumDurations(ivs) = ev.endMs - ev.startMs

\* C6: an event from the last tick of one year to exactly the first instant of the
\* year after the next gives two sub-intervals and none in the year it ends at.
C6_EndsAtYearBoundary ==
  /\ pc = "done"
  /\ input.family = "split"
  /\ input.rows[1].startMs = YearStart(SHUTDOWN_START_YEAR) - 1
  /\ input.rows[1].endMs = YearStart(SHUTDOWN_START_YEAR + 1)
  /\ Len(out.intervals) = 2
  /\ out.intervals[1].year = SHUTDOWN_START_YEAR - 1
  /\ out.intervals[2].year = SHUTDOWN_START_YEAR

\* C7: with no ISO hint the resolver returns MMR for "Burma", "Myanmar (Burma)"
\* and "MMR", and no code for "World" and "High income", whatever population
\* index built from country rows it is given.
C7_AliasesResolveAggregatesDoNot ==
  (pc = "done" /\ input.rows[1].iso3 = "") =>
    /\ input.rows[1].country \in {"Burma", "Myanmar (Burma)", "MMR"} => out.iso3 = "MMR"
    /\ input.rows[1].country \in {"World", "High income"} => out.iso3 = Unresolved

\* C7: "Myanmar (Burma)" is left unresolved against an index that does not hold
\* that very name: its canonical form MYANMARBURMA is not a key of the alias table.
C7_MyanmarBurmaUnresolved ==
  /\ pc = "done"
  /\ input.rows[1].iso3 = ""
  /\ input.rows[1].country = "Myanmar (Burma)"
  /\ \E i \in 1..Len(input.popRows) : input.popRows[i].name = "Myanmar"
  /\ out.iso3 = Unresolved

\* C8: a run is all-or-nothing: when run() ends in failure no file has been
\* written during the run.
C8_FailureWritesNothing ==
  (pc = "done" /\ out.status = "failed") => Len(out.written) = 0

\* C8: battle_deaths has written its four files when the placeholder guard fails
\* the run.
C8_BattleFailsAfterWriting ==
  /\ Done("battle_deaths")
  /\ out.status = "failed"
  /\ out.written = BattleFiles
  /\ ~input.extra

\* C8: internet_shutdown_days has written the series file when the summary of an
\* empty series fails the run.
C8_ShutdownFailsAfterWriting ==
  /\ Done("internet_shutdown_days")
  /\ out.status = "failed"
  /\ Len(out.written) = 1
  /\ Len(out.series) = 0

\* C9: a run whose output series has no point ends in failure.
C9_EmptySeriesFails ==
  (pc = "done" /\ Len(out.series) = 0) => out.status = "failed"

\* C9: death_registration_completeness ends successfully with an empty series
\* written to its output file.
C9_DeathRegistrationEmptyOk ==
  /\ Done("death_registration_completeness")
  /\ out.status = "ok"
  /\ Len(out.series) = 0
  /\ Len(out.written) > 0

\* C9: so does the committed JS pipeline of firearm_stock_per_100.
C9_FirearmJsEmptyOk ==
  /\ Done("firearm_stock_per_100.js")
  /\ out.status = "ok"
  /\ Len(out.series) = 0
  /\ Len(out.written) > 0

\* The value of the WLD row of a year in the homicide file.
WldCell(year) == RawCell(input.rows, ISO_WLD, year)

HasPoint(year, value) ==
  \E j \in 1..Len(out.series) :
    out.series[j].year = year /\ out.series[j].rounded = RoundScaled(value, 3)

HighCoverage(d) == d.computed /\ RatLe(HomicideMinCoverage, d.cov)

TablePipelines ==
  {"u5_mortality", "extreme_poverty", "homicide_rate", "death_registration_completeness",
   "firearm_stock_per_100", "firearm_stock_per_100.js"}

Obs(iso, year, value) == [iso |-> iso, year |-> year, value |-> value]

\* The observations a pipeline holds once it has ingested its metric file, in the
\* order it holds them.
Observations(pipeline, rows) ==
  IF pipeline = "u5_mortality"
  THEN LetSeq(U5Table(rows), LAMBDA m :
         [i \in 1..Len(m) |-> Obs(m[i].k[1], m[i].k[2], RatInt(m[i].v))])
  ELSE IF pipeline = "extreme_poverty"
  THEN LetSeq(EpTable(rows), LAMBDA m :
         [i \in 1..Len(m) |-> Obs(m[i].k[1], m[i].k[2], RatInt(m[i].v))])
  ELSE IF pipeline = "homicide_rate"
  THEN LetSeq(loadHomicideRates(rows).countryRates, LAMBDA m :
         [i \in 1..Len(m) |-> Obs(m[i].k[1], m[i].k[2], m[i].v)])
  ELSE IF pipeline = "death_registration_completeness"
  THEN LetSeq(loadDeathRegistration(rows), LAMBDA l :
         [i \in 1..Len(l) |-> Obs(l[i].iso3, l[i].year, RatInt(l[i].value))])
  ELSE IF pipeline = "firearm_stock_per_100"
  THEN LetSeq(normalizeSas(rows), LAMBDA l :
         [i \in 1..Len(l) |-> Obs(l[i].iso3, l[i].year, RatInt(l[i].civilian_firearms))])
  ELSE LetSeq(FirearmJsNormalize(rows, "civilian_firearms"), LAMBDA l :
         [i \in 1..Len(l) |-> Obs(l[i].iso3, l[i].year, RatInt(l[i].civilian_firearms))])

\* The rows of a country-year that carry a number, in file order.
NumberRows(rows, iso, year) ==
  SelectSeq(rows, LAMBDA r : r.iso = iso /\ r.year = year /\ r.value.t = "num")

\* The only source preference the pipelines name: UNODC, in homicide_rate.
PreferredSource(pipeline, source) == pipeline = "homicide_rate" /\ isUnodc(source)

\* What an explicit rule can make of two rows of a country-year that disagree: the
\* value of the one row that comes from the preferred source, or their mean.
ExplicitRuleValues(pipeline, raw) ==
  {RatDiv(RatAdd(RatInt(raw[1].value.n), RatInt(raw[2].value.n)), RatInt(2))}
    \cup {RatInt(raw[i].value.n) :
            i \in {j \in 1..2 : /\ PreferredSource(pipeline, raw[j].source)
                                /\ ~PreferredSource(pipeline, raw[3 - j].source)}}

\* C11: after ingestion a pipeline holds at most one observation per (iso3, year),
\* and when the file has two rows of a country-year with different values the
\* observation is the outcome of an explicit rule (the preferred source, or the
\* mean): neither the later row taking the place of the earlier one, nor both rows
\* counted.
C11_DuplicatesReconciled ==
  (pc = "done" /\ input.family = "table" /\ out.pipeline \in TablePipelines) =>
    LET obs == Observations(out.pipeline, input.rows)
    IN  \A i \in 1..Len(obs) :
          LET raw == NumberRows(input.rows, obs[i].iso, obs[i].year)
          IN  /\ \A j \in 1..Len(obs) :
                   (obs[j].iso = obs[i].iso /\ obs[j].year = obs[i].year) => j = i
              /\ (Len(raw) = 2 /\ raw[1].value # raw[2].value) =>
                   \E v \in ExplicitRuleValues(out.pipeline, raw) : RatEq(obs[i].value, v)

\* C11: the file of u5_mortality has USA twice for the year, 10 then 20, and no
\* other country: the later row has replaced the earlier one and 20.00 is published.
C11_U5LaterRowReplaces ==
  /\ Done("u5_mortality")
  /\ out.status = "ok"
  /\ LET raw == NumberRows(input.rows, "USA", TableYearA)
     IN  Len(raw) = 2 /\ raw[1].value = Num(10) /\ raw[2].value = Num(20)
  /\ NumberRows(input.rows, "FRA", TableYearA) = <<>>
  /\ Observations("u5_mortality", input.rows) = <<Obs("USA", TableYearA, RatInt(20))>>
  /\ \E i \in 1..Len(out.series) :
       out.series[i].year = TableYearA /\ out.series[i].rounded = 20 * Pow10(2)

\* C11: death_registration_completeness keeps both rows of the country-year and
\* adds the population of the country twice.
C11_DeathRegistrationCountsBoth ==
  /\ Done("death_registration_completeness")
  /\ Len(NumberRows(input.rows, "USA", TableYearA)) = 2
  /\ Len(SelectSeq(Observations("death_registration_completeness", input.rows),
                   LAMBDA o : o.iso = "USA" /\ o.year = TableYearA)) = 2
  /\ \E i \in 1..Len(out.diag) :
       /\ out.diag[i].year = TableYearA
       /\ out.diag[i].pop >= 2 * RawCell(input.popRows, "USA", TableYearA).n

\* C12: in homicide_rate, when a country-year has one rate from a UNODC-coded
\* source and one from another source, the reconciled rate is the UNODC-coded
\* value whichever row comes first; the mean is taken only of two rates of equal
\* source preference that differ by more than 1e-6, and of two such rates that do
\* not differ the first is kept.
C12_UnodcValueWhicheverOrder ==
  (Done("homicide_rate") /\ input.family = "table") =>
    LET obs == Observations("homicide_rate", input.rows)
    IN  \A i \in 1..Len(obs) :
          LET raw == NumberRows(input.rows, obs[i].iso, obs[i].year)
              a == RatInt(raw[1].value.n)
              b == RatInt(raw[2].value.n)
          IN  Len(raw) = 2 =>
                IF isUnodc(raw[1].source) # isUnodc(raw[2].source)
                THEN RatEq(obs[i].value, IF isUnodc(raw[1].source) THEN a ELSE b)
                ELSE IF DiffersBeyondTolerance(a, b)
                THEN RatEq(obs[i].value, RatDiv(RatAdd(a, b), RatInt(2)))
                ELSE RatEq(obs[i].value, a)

\* C12: the UNODC-coded row (20) comes first and the other row (10) second: the
\* reconciled rate is their mean, and 15.000 is published for the year.
C12_UnodcFirstIsAveraged ==
  /\ Done("homicide_rate")
  /\ out.status = "ok"
  /\ LET raw == NumberRows(input.rows, "USA", TableYearA)
     IN  /\ Len(raw) = 2
         /\ raw[1].value = Num(20) /\ isUnodc(raw[1].source)
         /\ raw[2].value = Num(10) /\ ~isUnodc(raw[2].source)
  /\ NumberRows(input.rows, "FRA", TableYearA) = <<>>
  /\ LET obs == Observations("homicide_rate", input.rows)
     IN  Len(obs) = 1 /\ RatEq(obs[1].value, RatInt(15))
  /\ \E i \in 1..Len(out.series) :
       out.series[i].year = TableYearA /\ out.series[i].rounded = 15 * Pow10(3)

\* The deaths of a year and type in the UCDP rows, and the year's rate per
\* 100,000 rounded to 3 decimals (in thousandths), computed from the raw files.
RefBattleDeaths(year, types) ==
  SumFn([i \in {j \in 1..Len(input.rows) :
                  input.rows[j].year = year /\ input.rows[j].type \in types} |->
           JsNumber(input.rows[i].value).n])

RefBattleRate(year, types) ==
  RoundScaled(Rat(RefBattleDeaths(year, types) * PER_100K,
                  RawCell([i \in 1..Len(input.popRows) |->
                             [iso |-> "", year |-> input.popRows[i].year,
                              value |-> input.popRows[i].value]], "", year).n), 3)

AbsDiff(a, b) == IF a < b THEN b - a ELSE a - b

\* C13: in every year of the outputs battle_deaths publishes, each of the four
\* by-type values is the type's rate rounded to 3 decimals, the total is the rate
\* of all deaths rounded to 3 decimals, and the sum of the four by-type values
\* differs from the total by at most 0.02; a run with a year beyond that tolerance
\* fails and writes nothing.
C13_ByTypeSumsToTotal ==
  Done("battle_deaths") =>
    /\ Len(out.written) > 0 =>
         /\ Len(out.series) = Len(out.diag)
         /\ \A i \in 1..Len(out.diag) :
              LET d == out.diag[i]
              IN  /\ out.series[i].year = d.year
                  /\ \A t \in 1..4 : d.byType[t] = RefBattleRate(d.year, {TYPE_CODES[t]})
                  /\ out.series[i].rounded = RefBattleRate(d.year, SeqToSet(TYPE_CODES))
                  /\ AbsDiff(SumInts(d.byType), out.series[i].rounded) <= TOLERANCE_MILLI
    /\ (\E i \in 1..Len(out.diag) :
          AbsDiff(SumInts(out.diag[i].byType), out.diag[i].total) > TOLERANCE_MILLI)
         => (out.status = "failed" /\ Len(out.written) = 0)

\* C13: a published year in which the rounded by-type values (0.429 + 0.429) do
\* not add up to the rounded total (0.857), within the tolerance.
C13_RoundedSumDiffersFromTotal ==
  /\ Done("battle_deaths")
  /\ out.status = "ok"
  /\ \E i \in 1..Len(out.diag) :
       /\ out.diag[i].byType = <<429, 429, 0, 0>>
       /\ out.series[i].rounded = 857
       /\ SumInts(out.diag[i].byType) # out.series[i].rounded

\* The series internet_shutdown_days publishes from the raw files of the current
\* run when the run happens in the calendar year now.
SeriesWhenRunIn(now) == ShutdownRunAt(input.rows, input.popRows, now).series

\* C14: the series a run publishes is a function of the raw input files alone: the
\* same files run in any other calendar year give the same series.
C14_SeriesIndependentOfRunDate ==
  (Done("internet_shutdown_days") /\ out.status = "ok") =>
    \A now \in ClockYears : SeriesWhenRunIn(now) = out.series

\* C14: a run over a file with an event still in progress publishes one year
\* when it happens in LastYear - 1, and the same file run one year later
\* publishes a second year, the event then counted up to the later cutoff.
C14_LaterRunPublishesAnotherYear ==
  /\ Done("internet_shutdown_days")
  /\ out.status = "ok"
  /\ input.extra = LastYear - 1
  /\ \E i \in 1..Len(input.rows) : ~input.rows[i].hasExplicitEndDate
  /\ Years(out.series) = <<LastYear - 2>>
  /\ Years(SeriesWhenRunIn(LastYear)) = <<LastYear - 2, LastYear - 1>>

\* The day of the year of a date, counted from 1.
DayOfYear(parts) == SumInts(SubSeq(MonthDays(parts.year), 1, parts.month - 1)) + parts.day

\* A raw event with explicit dates and no start or end time, from one day to the
\* same or a later day of the same year, the end day before the cutoff of the run.
IsDateOnlySameYear(entry, now) ==
  /\ entry.startDate.t = "date"
  /\ entry.hasExplicitEndDate
  /\ entry.startTime.t = "none"
  /\ entry.endTime.t = "none"
  /\ entry.startDate.year = entry.endDate.year
  /\ DayOfYear(entry.startDate) <= DayOfYear(entry.endDate)
  /\ entry.endDate.year < now

\* C15: a date-only event from day D1 to day D2 of one year, D1 <= D2, ending
\* before the cutoff, gives exactly one sub-interval, in that year, that starts at
\* the midnight D1 begins with and lasts D2 - D1 + 1 whole days.
C15_DateOnlySpanIsInclusive ==
  (pc = "done" /\ input.family = "raw" /\ IsDateOnlySameYear(input.rows[1], input.extra)) =>
    LET entry == input.rows[1]
        days == DayOfYear(entry.endDate) - DayOfYear(entry.startDate) + 1
    IN  /\ Len(out.intervals) = 1
        /\ out.intervals[1].year = entry.startDate.year
        /\ out.intervals[1].startMs
             = YearStart(entry.startDate.year) + (DayOfYear(entry.startDate) - 1) * TicksPerDay
        /\ out.intervals[1].endMs - out.intervals[1].startMs = days * TicksPerDay
        /\ RatEq(mergeIntervals(out.intervals), RatInt(days))

\* C15: India, date-only, from January 1 to January 10 of LastYear, run the year
\* after: one sub-interval of LastYear lasting 10 days.
C15_TenDaysOfJanuary ==
  /\ pc = "done"
  /\ input.family = "raw"
  /\ IsDateOnlySameYear(input.rows[1], input.extra)
  /\ input.rows[1].startDate = DateParts(LastYear, 1, 1)
  /\ input.rows[1].endDate = DateParts(LastYear, 1, 10)
  /\ Len(out.intervals) = 1
  /\ out.intervals[1].year = LastYear
  /\ RatEq(mergeIntervals(out.intervals), RatInt(10))

\* The deflator index the milex run reads for the base year from its deflator file.
MilexBaseIndex == MapGet(PositiveByYear(input.extra), DEFLATOR_BASE_YEAR)

MilexPublished ==
  Done("military_expenditure_per_capita") /\ out.status = "ok" /\ Len(out.written) > 0

\* C16: the military-expenditure run publishes a series only when the deflator
\* index of the base year differs from 100 by at most 0.01.
C16_BaseIndexIsHundred ==
  MilexPublished => AbsDiff(MilexBaseIndex * 100, 100 * 100) <= 1

\* C16: a run whose deflator file gives the base year the index 110 ends
\* successfully with a published series.
C16_PublishedWithBaseIndex110 ==
  /\ MilexPublished
  /\ MilexBaseIndex = 110
  /\ Len(out.series) > 0

\* C17: the value published for the base year is total / population of that year
\* rounded to one decimal, whatever the base year's index is.
C17_BaseYearKeepsNominalValue ==
  MilexPublished =>
    \A i \in 1..Len(out.series) :
      out.series[i].year = DEFLATOR_BASE_YEAR =>
        out.series[i].rounded
          = RoundScaled(Rat(MapGet(PositiveByYear(input.rows), DEFLATOR_BASE_YEAR),
                            MapGet(PositiveByYear(input.popRows), DEFLATOR_BASE_YEAR)), 1)

\* C17: with base index 110, total 433 and population 100 the base year is
\* published as 4.3.
C17_BaseYearWithIndex110 ==
  /\ MilexPublished
  /\ MilexBaseIndex = 110
  /\ \E i \in 1..Len(out.series) :
       /\ out.series[i].year = DEFLATOR_BASE_YEAR
       /\ out.series[i].rounded = 43

\* The counts fetchGrouped returns for the current co-authorship run.
CoauthCount(groups, year) ==
  LET rows == fetchGrouped(groups)
  IN  rows[CHOOSE i \in 1..Len(rows) : rows[i].year = year].count

\* C18: the co-authorship share published for a year is international / total
\* * 100 rounded once to one decimal, for counts with total > 0 and
\* 0 <= international <= total.
C18_ShareRoundedOnce ==
  Done("scientific_coauthorship_share") =>
    \A i \in 1..Len(out.series) :
      LET total == CoauthCount(input.rows, out.series[i].year)
          international == CoauthCount(input.popRows, out.series[i].year)
      IN  (total > 0 /\ 0 <= international /\ international <= total) =>
            out.series[i].rounded = RoundScaled(Rat(international * 100, total), 1)

\* C18: 1 international work of 22 is a share of 4.5454...%, 4.5 when rounded
\* once; the published value is 4.6, the rounding to one decimal of 4.55.
C18_OneOfTwentyTwoPublishedAs46 ==
  /\ Done("scientific_coauthorship_share")
  /\ out.status = "ok"
  /\ \E i \in 1..Len(out.series) :
       /\ CoauthCount(input.rows, out.series[i].year) = 22
       /\ CoauthCount(input.popRows, out.series[i].year) = 1
       /\ out.series[i].rounded = 46
       /\ RoundScaled(out.series[i].value, 1) = 45

\* A response that is no transient failure: a status other than 2xx, 429 and 5xx,
\* or a 2xx status with a body that does not parse.
IsPermanentFailure(response) ==
  /\ response.status # NoStatus
  /\ \/ Is2xx(response.status) /\ ~response.parses
     \/ ~Is2xx(response.status) /\ response.status # 429 /\ response.status < 500

\* C19: fetchJson makes no further attempt after a response with a non-2xx
\* status other than 429 and 5xx, or with an unparseable body: such a response
\* is the last one and fetchJson has thrown.
C19_PermanentFailureNotRetried ==
  (input.family = "fetch") =>
    \A i \in 1..Len(out.responses) :
      IsPermanentFailure(out.responses[i]) =>
        (i = Len(out.responses) /\ out.status = "threw")

\* C19: a request answered 404 every time is made MAX_ATTEMPTS times before
\* fetchJson throws.
C19_NotFoundRetriedToTheLimit ==
  /\ input.family = "fetch"
  /\ out.status = "threw"
  /\ Len(out.responses) = MAX_ATTEMPTS
  /\ \A i \in 1..Len(out.responses) : out.responses[i] = Response("ok", 404, FALSE)

\* C19: a 200 response whose body does not parse is followed by another attempt.
C19_UnparseableBodyRetried ==
  /\ input.family = "fetch"
  /\ Len(out.responses) = 2
  /\ out.responses[1] = Response("ok", 200, FALSE)

\* Some page of the indicator that is requested comes back not OK: page 1, or a
\* later page reached after page 1 gave its rows.
FetchedPageNotOk(serverRows, kinds) ==
  \/ kinds[1] = "notOk"
  \/ /\ kinds[1] = "ok"
     /\ \E p \in 2..PageCount(serverRows) : kinds[p] = "notOk"

WdiDone ==
  pc = "done" /\ input.family = "wdi" /\ out.pipeline \in {"u5_mortality", "extreme_poverty"}

\* C20: a u5_mortality or extreme_poverty run in which the request of a page of
\* one of its two indicators is not OK fails and writes no file.
C20_FailedPageFailsRun ==
  (WdiDone /\ (FetchedPageNotOk(input.rows, MetricKinds)
               \/ FetchedPageNotOk(input.popRows, PopulationKinds))) =>
    (out.status = "failed" /\ Len(out.written) = 0)

\* C20: page 2 of the mortality indicator is not OK, every other page is OK, and
\* u5_mortality publishes a series from the rows of page 1 alone.
C20_U5PublishedFromFirstPage ==
  /\ WdiDone
  /\ out.pipeline = "u5_mortality"
  /\ PageCount(input.rows) = 2
  /\ input.extra.metric = <<"ok", "notOk">>
  /\ input.extra.population = <<"ok", "ok">>
  /\ out.status = "ok"
  /\ Len(out.written) > 0
  /\ Len(out.series) = 1

\* C20: the same for extreme_poverty.
C20_EpPublishedFromFirstPage ==
  /\ WdiDone
  /\ out.pipeline = "extreme_poverty"
  /\ PageCount(input.rows) = 2
  /\ input.extra.metric = <<"ok", "notOk">>
  /\ out.status = "ok"
  /\ Len(out.written) > 0

\* The cells a data line of the current text stands for: its values in header
\* order, the empty string for a missing trailing one.
ExpectedCells == AlignCells(<<"a", "b">>, input.extra)

\* C21: every CSV parser gives, for a data line, the cells in line with the
\* header columns: a quoted cell keeps its comma, a doubled quote is one quote,
\* and a missing trailing cell is the empty string.
C21_CellsAlignedWithHeaders ==
  (pc = "done" /\ input.family = "csv") =>
    /\ out.headers = <<<<"a">>, <<"b">>>>
    /\ out.rows = <<ExpectedCells>>

\* C21: the parser of death_registration_completeness alone.
C21_DeathRegCellsAligned ==
  (pc = "done" /\ input.family = "csv" /\ out.op = "death_registration") =>
    /\ out.headers = <<<<"a">>, <<"b">>>>
    /\ out.rows = <<ExpectedCells>>

\* C21: the parser of internet_shutdown_days reads the line "x,y",x as the cells
\* x and y: the quotes are gone before the line is cut into cells.
C21_ShutdownSplitsQuotedComma ==
  /\ pc = "done"
  /\ out.op = "shutdown"
  /\ input.extra = <<<<"x", COMMA, "y">>, <<"x">>>>
  /\ out.rows = <<<<<<"x">>, <<"y">>>>>>

\* C21: the parser of the TypeScript firearm_stock_per_100 cuts the same line at
\* every comma.
C21_FirearmSplitsQuotedComma ==
  /\ pc = "done"
  /\ out.op = "firearm"
  /\ input.extra = <<<<"x", COMMA, "y">>, <<"x">>>>
  /\ out.rows = <<<<<<"x">>, <<"y">>>>>>

\* C21: the parser of death_registration_completeness keeps the comma and the
\* quote of a quoted cell.
C21_DeathRegKeepsQuotedComma ==
  /\ pc = "done"
  /\ out.op = "death_registration"
  /\ input.extra = <<<<"x", COMMA, "y">>, <<"x", QUOTE, "y">>>>
  /\ out.rows = <<input.extra>>

\* The years the UCDP rows of the current run have, and the years its
\* population rows give a positive number for.
UcdpYears == {input.rows[i].year : i \in 1..Len(input.rows)}
BattlePopulationYears ==
  {input.popRows[i].year : i \in {j \in 1..Len(input.popRows) :
                                    /\ input.popRows[j].value.t = "num"
                                    /\ input.popRows[j].value.n > 0}}

MaxYear(S) == CHOOSE y \in S : \A z \in S : z <= y
MinOfTwo(a, b) == IF a < b THEN a ELSE b

\* C22: a successful battle_deaths run publishes one point for each year from
\* 1990 through the smaller of the last UCDP year and the last population year,
\* and no other; a run with a year of that range missing from the UCDP rows or
\* from the population fails.
C22_SeriesCoversCommonRange ==
  (Done("battle_deaths") /\ UcdpYears # {} /\ BattlePopulationYears # {}) =>
    LET maxCommonYear == MinOfTwo(MaxYear(UcdpYears), MaxYear(BattlePopulationYears))
        range == BATTLE_START_YEAR..maxCommonYear
    IN  /\ out.status = "ok" =>
             /\ Years(out.series) = YearRange(BATTLE_START_YEAR, maxCommonYear)
             /\ range \subseteq UcdpYears
             /\ range \subseteq BattlePopulationYears
        /\ (\E y \in range : y \notin UcdpYears \/ y \notin BattlePopulationYears)
             => (out.status = "failed" /\ Len(out.written) = 0)

\* C22: UCDP rows for 1990, 1991 and 1992 with a population for 1990 and 1991
\* alone: the run succeeds and publishes 1990 and 1991, 1992 dropped.
C22_YearBeyondPopulationDropped ==
  /\ Done("battle_deaths")
  /\ out.status = "ok"
  /\ UcdpYears = {BATTLE_START_YEAR, BATTLE_START_YEAR + 1, BATTLE_START_YEAR + 2}
  /\ BattlePopulationYears = {BATTLE_START_YEAR, BATTLE_START_YEAR + 1}
  /\ Years(out.series) = <<BATTLE_START_YEAR, BATTLE_START_YEAR + 1>>

\* C22: UCDP rows for 1990 and 1992 and none for 1991, the population complete:
\* the run fails.
C22_GapFailsRun ==
  /\ Done("battle_deaths")
  /\ out.status = "failed"
  /\ Len(out.written) = 0
  /\ UcdpYears = {BATTLE_START_YEAR, BATTLE_START_YEAR + 2}
  /\ BattlePopulationYears
       = {BATTLE_START_YEAR, BATTLE_START_YEAR + 1, BATTLE_START_YEAR + 2}

\* The longest year, in days.
MaxDaysOfYear == 366

\* C23: every value of the published internet_shutdown_days series lies within
\* [0, 366], unrounded and rounded to one decimal.
C23_ValuesWithinYearLength ==
  Done("internet_shutdown_days") =>
    \A i \in 1..Len(out.series) :
      /\ RatLe(RatInt(0), out.series[i].value)
      /\ RatLe(out.series[i].value, RatInt(MaxDaysOfYear))
      /\ 0 <= out.series[i].rounded
      /\ out.series[i].rounded <= MaxDaysOfYear * 10

\* C23: two events still in progress, begun on the last two days of a year, in
\* the one country of the population table: the next year is published with the
\* value 365.0, every day of it counted once.
C23_WholeYearShutdown ==
  /\ Done("internet_shutdown_days")
  /\ out.status = "ok"
  /\ Len(input.rows) = 2
  /\ \A i \in 1..2 : ~input.rows[i].hasExplicitEndDate
  /\ input.rows[1] # input.rows[2]
  /\ \E i \in 1..Len(out.series) :
       /\ out.series[i].year = LastYear - 1
       /\ out.series[i].rounded = 3650

\* The sleeps of fetchJson after the first, second, ... failed attempt, in ms.
BackoffSchedule == <<500, 1000, 2000, 4000>>

\* fetchJson has made at most MAX_ATTEMPTS requests and slept 500 * 2^(k-1) ms
\* after the k-th of them that was followed by another; when it has returned the
\* last response was a parsed 2xx one, and when it has thrown the attempts are
\* exhausted.
FetchWithinBounds ==
  (input.family = "fetch") =>
    /\ Len(out.responses) <= MAX_ATTEMPTS
    /\ out.attempt <= MAX_ATTEMPTS
    /\ out.delays = SubSeq(BackoffSchedule, 1, Len(out.delays))
    /\ Len(out.delays)
         = IF out.status = "pending" THEN Len(out.responses) ELSE Len(out.responses) - 1
    /\ out.status = "returned" =>
         (Is2xx(Last(out.responses).status) /\ Last(out.responses).parses)
    /\ out.status = "threw" => Len(out.responses) = MAX_ATTEMPTS

\* C24: fetchJson always terminates, after at most MAX_ATTEMPTS requests with
\* sleeps of 500 * 2^(k-1) ms between them, by returning a parsed 2xx response or
\* by throwing once the attempts are exhausted.
C24_FetchTerminatesWithinAttempts ==
  /\ []FetchWithinBounds
  /\ <>(pc = "done" /\ out.status \in {"returned", "threw"})

\* C24: five failed attempts with the sleeps 500, 1000, 2000 and 4000 ms between
\* them, then the throw.
C24_FiveAttemptsThenThrow ==
  /\ input.family = "fetch"
  /\ pc = "done"
  /\ out.status = "threw"
  /\ Len(out.responses) = MAX_ATTEMPTS
  /\ out.delays = <<500, 1000, 2000, 4000>>

\* C24: a parsed 2xx response on the third attempt ends fetchJson.
C24_ReturnsOnThirdAttempt ==
  /\ input.family = "fetch"
  /\ pc = "done"
  /\ out.status = "returned"
  /\ Len(out.responses) = 3
  /\ out.delays = <<500, 1000>>

\* The one raw event of a normalization run has a start date that parses and no
\* end date.
IsOpenEnded(entry) == entry.startDate.t = "date" /\ ~entry.hasExplicitEndDate

CutoffMs == YearStart(input.extra)

C25_OpenEndedAfterCutoffDropped ==
  /\ pc = "done"
  /\ input.family = "raw"
  /\ IsOpenEnded(input.rows[1])
  /\ input.rows[1].startDate = DateParts(LastYear, 1, 10)
  /\ input.extra = LastYear
  /\ Len(out.events) = 0
  /\ out.approxCount = 0

\* The TypeScript pipeline run on the input files of the current run.
FirearmTsOnInput == FirearmTsRun(input.rows, input.popRows)

\* C26: on the same two input files the committed JS runner and the TypeScript
\* pipeline of firearm_stock_per_100 either both fail or both succeed with the
\* same series.
C26_JsRunnerEquivalentToTs ==
  Done("firearm_stock_per_100.js") =>
    /\ out.status = FirearmTsOnInput.status
    /\ out.status = "ok" => out.series = FirearmTsOnInput.series

\* C26: the JS runner succeeds and writes its files on input files on which the
\* TypeScript pipeline fails.
C26_JsSucceedsWhereTsFails ==
  /\ Done("firearm_stock_per_100.js")
  /\ out.status = "ok"
  /\ Len(out.written) = 2
  /\ FirearmTsOnInput.status = "failed"

\* The instant at which a calendar day begins, and the start instant of a row.
DayStartMs(d) == YearStart(d.year) + (DayOfYear(d) - 1) * TicksPerDay
RowStartMs(entry) ==
  DayStartMs(entry.startDate) + (IF entry.startTime.t = "none" THEN 0 ELSE entry.startTime.ticks)

\* The row's end date parses and is a day before its start date.
EndsBeforeStart(entry) ==
  /\ entry.startDate.t = "date" /\ entry.hasExplicitEndDate /\ entry.endDate.t = "date"
  /\ DayStartMs(entry.endDate) < DayStartMs(entry.startDate)

\* C27: every event emitted by normalizeStopEvents has startMs < endMs <= cutoffMs;
\* a row starting at the cutoff or after it emits nothing, and a row whose end
\* is before its start gets one day, or up to the cutoff if that is sooner.
C27_EventsWithinCutoff ==
  (pc = "done" /\ input.family = "raw") =>
    /\ \A i \in 1..Len(out.events) :
         /\ out.events[i].startMs < out.events[i].endMs
         /\ out.events[i].endMs <= CutoffMs
    /\ \A j \in 1..Len(input.rows) :
         /\ (input.rows[j].startDate.t = "date" /\ RowStartMs(input.rows[j]) >= CutoffMs)
              => Len(out.events) = 0
         /\ (EndsBeforeStart(input.rows[j]) /\ RowStartMs(input.rows[j]) < CutoffMs)
              => /\ Len(out.events) = 1
                 /\ out.events[1].startMs = RowStartMs(input.rows[j])
                 /\ out.events[1].endMs
                      = MinOfTwo(RowStartMs(input.rows[j]) + TicksPerDay, CutoffMs)

\* C27: an event from December 25 to January 10 across the cutoff is clipped to
\* the cutoff.
C27_EndAfterCutoffClipped ==
  /\ pc = "done"
  /\ input.family = "raw"
  /\ input.extra = LastYear
  /\ input.rows[1].startDate = DateParts(LastYear - 1, 12, 25)
  /\ input.rows[1].hasExplicitEndDate
  /\ input.rows[1].endDate = DateParts(LastYear, 1, 10)
  /\ Len(out.events) = 1
  /\ out.events[1].endMs = YearStart(LastYear)
  /\ out.events[1].approx

\* C27: a row ending before it starts, begun on December 31 after midnight: its
\* one-day span is cut at the cutoff.
C27_ReversedSpanCutAtCutoff ==
  /\ pc = "done"
  /\ input.family = "raw"
  /\ input.extra = LastYear
  /\ EndsBeforeStart(input.rows[1])
  /\ input.rows[1].startDate = DateParts(LastYear - 1, 12, 31)
  /\ input.rows[1].startTime = TimeOfDay(1)
  /\ Len(out.events) = 1
  /\ out.events[1].endMs = YearStart(LastYear)
  /\ out.events[1].endMs - out.events[1].startMs = TicksPerDay - 1

\* C27: a row ending before it starts, well before the cutoff, spans one day.
C27_ReversedSpanIsOneDay ==
  /\ pc = "done"
  /\ input.family = "raw"
  /\ EndsBeforeStart(input.rows[1])
  /\ input.rows[1].startDate = DateParts(2016, 3, 1)
  /\ Len(out.events) = 1
  /\ out.events[1].endMs - out.events[1].startMs = TicksPerDay

\* C28: an event with no ISO hint whose country name is a key of
\* STOP_ALIAS_TO_ISO resolves to the ISO code of that key.
C28_EveryAliasKeyResolves ==
  (pc = "done" /\ input.family = "resolver" /\ input.rows[1].iso3 = ""
     /\ AliasHas(input.rows[1].country)) =>
    out.iso3 = AliasGet(input.rows[1].country)

\* C28: the key UAE is three capital letters: it is returned as the ISO code UAE
\* before the alias table is looked at.
C28_UaeTakenAsIsoCode ==
  /\ pc = "done"
  /\ input.family = "resolver"
  /\ input.rows[1].iso3 = ""
  /\ input.rows[1].country = "UAE"
  /\ AliasGet("UAE") = "ARE"
  /\ out.iso3 = "UAE"

\* C28: the key BOLIVIA(BOLIVARIANREPUBLICOF) holds parentheses, which the
\* canonical form of a name never does: the name is left unresolved.
C28_PunctuatedKeyUnresolved ==
  /\ pc = "done"
  /\ input.family = "resolver"
  /\ input.rows[1].iso3 = ""
  /\ input.rows[1].country = "BOLIVIA(BOLIVARIANREPUBLICOF)"
  /\ canonicalizeCountry(input.rows[1].country) = "BOLIVIABOLIVARIANREPUBLICOF"
  /\ ~AliasHas(canonicalizeCountry(input.rows[1].country))
  /\ out.iso3 = Unresolved

\* C28: a key made of letters only, RUSSIA, resolves through the alias table.
C28_PlainKeyResolves ==
  /\ pc = "done"
  /\ input.family = "resolver"
  /\ input.rows[1].iso3 = ""
  /\ input.rows[1].country = "RUSSIA"
  /\ out.iso3 = "RUS"

\* The alias keys that do not resolve to their ISO code: the three-letter key and
\* the keys whose canonical form is not a key of the table.
UnreachableAliasKeys ==
  {key \in AliasKeys :
     \/ isCountryIso(toUpperCase(Trim(key)))
     \/ ~AliasHas(canonicalizeCountry(Trim(key)))}

\* C28: the keys that fail are exactly the three-letter key and the keys whose
\* canonical form is missing from the table; every other key resolves.
C28_FailingKeysAreShadowedOrPunctuated ==
  (pc = "done" /\ input.family = "resolver" /\ input.rows[1].iso3 = ""
     /\ AliasHas(input.rows[1].country)) =>
    (out.iso3 # AliasGet(input.rows[1].country)
       => input.rows[1].country \in UnreachableAliasKeys)

\* The sum over countries of the population stored for (country, year) in a map
\* keyed by (iso3, year).
StoredPopulationOfYear(populationByIsoYear, year) ==
  SumInts([i \in 1..Len(MapKeys(populationByIsoYear)) |->
             IF MapKeys(populationByIsoYear)[i][2] = year
             THEN MapGet(populationByIsoYear, MapKeys(populationByIsoYear)[i]) ELSE 0])

\* The population table of the current internet_shutdown_days run, as loaded.
ShutdownPopulationOfInput == ShutdownLoadPopulation(input.popRows)

\* C29: in internet_shutdown_days and firearm_stock_per_100 the total population
\* stored for a year is the sum of the populations stored for its countries,
\* repeated (iso3, year) rows included, and no coverage ratio exceeds 1.
C29_TotalIsSumOfStoredPopulations ==
  /\ Done("internet_shutdown_days") =>
       \A i \in 1..Len(MapKeys(ShutdownPopulationOfInput.totalPopulationByYear)) :
         LET year == MapKeys(ShutdownPopulationOfInput.totalPopulationByYear)[i]
         IN  MapGet(ShutdownPopulationOfInput.totalPopulationByYear, year)
               = StoredPopulationOfYear(ShutdownPopulationOfInput.populationByIsoYear, year)
  /\ Done("firearm_stock_per_100") =>
       /\ \A i \in 1..Len(normalizeWdi(input.popRows)) :
            LET year == normalizeWdi(input.popRows)[i].year
            IN  TotalPopulationOfYear(normalizeWdi(input.popRows), year)
                  = StoredPopulationOfYear(PopulationIndex(normalizeWdi(input.popRows)), year)
       /\ \A i \in 1..Len(out.diag) : RatLe(out.diag[i].cov, RatInt(1))

\* C29: a population table with two rows for USA 2016 (300, then 100) and one for
\* MMR 2016 (50): the stored populations are 100 and 50, the stored total is 450,
\* so the weights of the year sum to 1/3; the run publishes 2016 all the same.
C29_RepeatedRowInflatesTotal ==
  /\ Done("internet_shutdown_days")
  /\ out.status = "ok"
  /\ \E i \in 1..Len(out.series) : out.series[i].year = 2016
  /\ MapHas(ShutdownPopulationOfInput.populationByIsoYear, Key("USA", 2016))
  /\ MapHas(ShutdownPopulationOfInput.populationByIsoYear, Key("MMR", 2016))
  /\ MapGet(ShutdownPopulationOfInput.populationByIsoYear, Key("USA", 2016)) = 100
  /\ MapGet(ShutdownPopulationOfInput.populationByIsoYear, Key("MMR", 2016)) = 50
  /\ MapGet(ShutdownPopulationOfInput.totalPopulationByYear, 2016) = 450
  /\ StoredPopulationOfYear(ShutdownPopulationOfInput.populationByIsoYear, 2016) = 150

\* C29: firearm_stock_per_100 publishes a year whose coverage ratio is above 1.
C29_FirearmCoverageAboveOne ==
  /\ Done("firearm_stock_per_100")
  /\ out.status = "ok"
  /\ \E i \in 1..Len(out.diag) :
       /\ out.diag[i].kept
       /\ ~RatLe(out.diag[i].cov, RatInt(1))

\* The rows in another order: row i of the result is row p[i] of the file.
Permuted(rows, p) == [i \in 1..Len(rows) |-> rows[p[i]]]

\* Two maps of reconciled rates hold the same keys with the same rates.
SameRates(a, b) ==
  /\ \A i \in 1..Len(a) : MapHas(b, a[i].k) /\ RatEq(MapGet(b, a[i].k), a[i].v)
  /\ \A i \in 1..Len(b) : MapHas(a, b[i].k)

\* The reconciled rates of the homicide file of the current run.
HomicideRatesOfInput == loadHomicideRates(input.rows).countryRates

\* C30: the reconciled rates loadHomicideRates yields are the same for every
\* order of the rows of the homicide file.
C30_RatesInvariantUnderPermutation ==
  (Done("homicide_rate") /\ input.family = "table") =>
    \A p \in Permutations(1..Len(input.rows)) :
      SameRates(HomicideRatesOfInput, loadHomicideRates(Permuted(input.rows, p)).countryRates)

\* C30: the rows (20, UNODC) then (10, other source) of one country-year are
\* reconciled to 15; the same two rows in the other order are reconciled to 20.
C30_OrderChangesRate ==
  /\ Done("homicide_rate")
  /\ input.family = "table"
  /\ Len(input.rows) = 2
  /\ input.rows[1].value = Num(20) /\ isUnodc(input.rows[1].source)
  /\ input.rows[2].value = Num(10) /\ ~isUnodc(input.rows[2].source)
  /\ Key(input.rows[1].iso, input.rows[1].year) = Key(input.rows[2].iso, input.rows[2].year)
  /\ Len(HomicideRatesOfInput) = 1
  /\ RatEq(HomicideRatesOfInput[1].v, RatInt(15))
  /\ LET swapped == loadHomicideRates(<<input.rows[2], input.rows[1]>>).countryRates
     IN  Len(swapped) = 1 /\ RatEq(swapped[1].v, RatInt(20))

\* C30: two rows of the same source preference are reconciled to the same rate
\* in either order.
C30_SamePreferenceOrderFree ==
  (Done("homicide_rate") /\ input.family = "table") =>
    \A i \in 1..Len(input.rows) : \A j \in 1..Len(input.rows) :
      (/\ i # j
       /\ Key(input.rows[i].iso, input.rows[i].year) = Key(input.rows[j].iso, input.rows[j].year)
       /\ "source" \in DOMAIN input.rows[i] /\ "source" \in DOMAIN input.rows[j]
       /\ isUnodc(input.rows[i].source) = isUnodc(input.rows[j].source))
      => SameRates(loadHomicideRates(<<input.rows[i], input.rows[j]>>).countryRates,
                   loadHomicideRates(<<input.rows[j], input.rows[i]>>).countryRates)
====
